---- MODULE Spec2Model ----
(***************************************************************************)
(* A model of the DMAP codec of pydarn (src/pydarn/pydmap/io.py):          *)
(* DmapWrite (schema validation and record encoding) and DmapRead (the     *)
(* cursor-driven record decoder and the block-size prescan).               *)
(*                                                                         *)
(* Representation.                                                         *)
(*  - A byte buffer is a sequence over 0..255; the Python cursor is        *)
(*    0-based, so byte i of the buffer b is b[i+1].                        *)
(*  - Text (field names, string values) is a sequence of code points;      *)
(*    it becomes bytes through Utf8Encode and comes back through           *)
(*    Utf8Decode.                                                          *)
(*  - struct's native byte order is taken to be little-endian with the     *)
(*    standard sizes of the table DMAP_DATA_TYPES.                         *)
(*  - A field value is always a sequence of integers: <<v>> for a numeric  *)
(*    scalar, the code points for a string scalar, the flat (C order)      *)
(*    element list for an array. float32/float64 elements are             *)
(*    identified with their IEEE-754 bit patterns, so only values that    *)
(*    are exactly representable in the stored width are covered.          *)
(*  - An exception is the name of its class, "ok" is no exception.         *)
(***************************************************************************)
EXTENDS Integers, Sequences, FiniteSets, TLC

(***************************************************************************)
(* Generic helpers                                                         *)
(***************************************************************************)
RECURSIVE Concat(_)
Concat(ss) == IF ss = <<>> THEN <<>> ELSE Head(ss) \o Concat(Tail(ss))

RECURSIVE Product(_)
Product(s) == IF s = <<>> THEN 1 ELSE Head(s) * Product(Tail(s))

RECURSIVE Sum(_)
Sum(s) == IF s = <<>> THEN 0 ELSE Head(s) + Sum(Tail(s))

Reverse(s) == [i \in 1..Len(s) |-> s[Len(s) + 1 - i]]

Range(s) == {s[i] : i \in 1..Len(s)}

Take(s, n) == SubSeq(s, 1, n)

Drop(s, n) == SubSeq(s, n + 1, Len(s))

(***************************************************************************)
(* Wire type codes and the type registry                                   *)
(***************************************************************************)
DMAP == 0
CHAR == 1
SHORT == 2
INT == 3
FLOAT == 4
DOUBLE == 8
STRING_T == 9
LONG == 10
UCHAR == 16
USHORT == 17
UINT == 18
ULONG == 19

\* data type code -> <<struct format, byte size>>
DMAP_DATA_TYPES ==
    (DMAP :> <<"", 0>>) @@ (CHAR :> <<"c", 1>>) @@ (SHORT :> <<"h", 2>>) @@
    (INT :> <<"i", 4>>) @@ (FLOAT :> <<"f", 4>>) @@ (DOUBLE :> <<"d", 8>>) @@
    (STRING_T :> <<"s", 1>>) @@ (LONG :> <<"q", 8>>) @@ (UCHAR :> <<"B", 1>>) @@
    (USHORT :> <<"H", 2>>) @@ (UINT :> <<"I", 4>>) @@ (ULONG :> <<"Q", 8>>)

\* struct's standard size of a numeric format character
FmtSize(fmt) ==
    CASE fmt \in {"B"} -> 1
      [] fmt \in {"h", "H"} -> 2
      [] fmt \in {"i", "I", "f"} -> 4
      [] fmt \in {"q", "Q", "d"} -> 8
      [] OTHER -> 0

FmtSigned(fmt) == fmt \in {"h", "i", "q"}

(***************************************************************************)
(* struct.pack / struct.unpack_from for one number, little-endian.         *)
(* Numbers are TLC integers, so a value is covered when it lies in         *)
(* -2^31 .. 2^31 - 1; a float is the two's complement reading of its bit   *)
(* pattern.                                                                *)
(***************************************************************************)
\* the w low bytes of v in two's complement (\div rounds down, % is >= 0)
RECURSIVE LEBytes(_, _)
LEBytes(v, w) == IF w = 0 THEN <<>> ELSE <<v % 256>> \o LEBytes(v \div 256, w - 1)

RECURSIVE LEValue(_)
LEValue(bs) == IF bs = <<>> THEN 0 ELSE Head(bs) + 256 * LEValue(Tail(bs))

\* the two's complement reading of the bytes bs
RECURSIVE LESigned(_)
LESigned(bs) ==
    IF Len(bs) = 1 THEN (IF bs[1] >= 128 THEN bs[1] - 256 ELSE bs[1])
    ELSE Head(bs) + 256 * LESigned(Tail(bs))

\* whether struct.pack accepts v for the format
FmtFits(fmt, v) ==
    CASE fmt = "B" -> v >= 0 /\ v <= 255
      [] fmt = "h" -> v >= 0 - 32768 /\ v <= 32767
      [] fmt = "H" -> v >= 0 /\ v <= 65535
      [] fmt \in {"I", "Q"} -> v >= 0
      [] fmt \in {"i", "q", "f", "d"} -> TRUE
      [] OTHER -> FALSE

\* struct.pack(fmt, v): "struct.error" when v does not fit the format
struct_pack(fmt, v) ==
    IF ~FmtFits(fmt, v)
    THEN [err |-> "struct.error", bytes |-> <<>>]
    ELSE [err |-> "ok", bytes |-> LEBytes(v, FmtSize(fmt))]

\* struct.unpack_from(fmt, buffer, offset)[0] on the bytes bs
struct_unpack(fmt, bs) ==
    IF fmt \in {"B", "H", "I", "Q"} THEN LEValue(bs) ELSE LESigned(bs)

(***************************************************************************)
(* str.encode('utf-8') / bytes.decode('utf-8'), code points below 2048     *)
(***************************************************************************)
Utf8Char(cp) == IF cp < 128 THEN <<cp>> ELSE <<192 + (cp \div 64), 128 + (cp % 64)>>

RECURSIVE Utf8Encode(_)
Utf8Encode(cps) == IF cps = <<>> THEN <<>> ELSE Utf8Char(Head(cps)) \o Utf8Encode(Tail(cps))

\* [err, text]: one- and two-byte sequences are decoded, anything else is
\* reported as UnicodeDecodeError (longer sequences do not occur in the
\* buffers of this model)
RECURSIVE Utf8Decode(_)
Utf8Decode(bs) ==
    IF bs = <<>> THEN [err |-> "ok", text |-> <<>>]
    ELSE IF bs[1] < 128
    THEN LET r == Utf8Decode(Tail(bs))
         IN  [err |-> r.err, text |-> <<bs[1]>> \o r.text]
    ELSE IF bs[1] >= 194 /\ bs[1] <= 223 /\ Len(bs) >= 2 /\ bs[2] >= 128 /\ bs[2] <= 191
    THEN LET r == Utf8Decode(Tail(Tail(bs)))
         IN  [err |-> r.err, text |-> <<(bs[1] - 192) * 64 + (bs[2] - 128)>> \o r.text]
    ELSE [err |-> "UnicodeDecodeError", text |-> <<>>]

(***************************************************************************)
(* Field values: DmapScalar(name, value, data_type, data_type_fmt) and     *)
(* DmapArray(name, value, data_type, data_type_fmt, dimension, shape).     *)
(* A record (an OrderedDict) is the sequence of its fields in key          *)
(* insertion order.                                                        *)
(***************************************************************************)
DmapScalar(name, value, data_type, data_type_fmt) ==
    [kind |-> "scalar", name |-> name, value |-> value, data_type |-> data_type,
     data_type_fmt |-> data_type_fmt, dimension |-> 0, shape |-> <<>>]

DmapArray(name, value, data_type, data_type_fmt, dimension, shape) ==
    [kind |-> "array", name |-> name, value |-> value, data_type |-> data_type,
     data_type_fmt |-> data_type_fmt, dimension |-> dimension, shape |-> shape]

\* the keys of a record, as a sequence and as a set
Keys(record) == [i \in 1..Len(record) |-> record[i].name]

KeySet(record) == {record[i].name : i \in 1..Len(record)}

\* record[name] = field on an OrderedDict: an existing key keeps its place
DictPut(record, field) ==
    IF \E i \in 1..Len(record) : record[i].name = field.name
    THEN [i \in 1..Len(record) |->
              IF record[i].name = field.name THEN field ELSE record[i]]
    ELSE Append(record, field)

(***************************************************************************)
(* DmapWrite: the record encoder                                           *)
(***************************************************************************)
\* struct.pack('<n>s', text.encode('utf-8')) with n = len(text): the bytes
\* are cut (or NUL padded) to the number of characters of the text
PackText(text) ==
    LET bs == Utf8Encode(text)
        n == Len(text)
    IN  IF Len(bs) >= n THEN Take(bs, n) ELSE bs \o [i \in 1..(n - Len(bs)) |-> 0]

\* struct.pack('c', chr(data_type).encode('utf-8'))
PackTypeCode(data_type) ==
    IF data_type >= 0 /\ data_type < 128
    THEN [err |-> "ok", bytes |-> <<data_type>>]
    ELSE [err |-> "struct.error", bytes |-> <<>>]

\* the bytes of one element of array.value.tostring()
ElemBytes(fmt, v) ==
    LEBytes(v, IF fmt = "c" THEN 1 ELSE FmtSize(fmt))

dmap_scalar_to_bytes(scalar) ==
    LET scalar_name_bytes == PackText(scalar.name \o <<0>>)
        scalar_type_bytes == PackTypeCode(scalar.data_type)
        scalar_type_fmt == scalar.data_type_fmt
        scalar_data_bytes ==
            IF scalar_type_fmt = "s"
            THEN [err |-> "ok", bytes |-> PackText(scalar.value \o <<0>>)]
            ELSE IF scalar_type_fmt = "c"
            THEN [err |-> "ok", bytes |-> Utf8Char(scalar.value[1])]
            ELSE struct_pack(scalar_type_fmt, scalar.value[1])
    IN  IF scalar_type_bytes.err # "ok" THEN [err |-> scalar_type_bytes.err, bytes |-> <<>>]
        ELSE IF scalar_data_bytes.err # "ok" THEN [err |-> scalar_data_bytes.err, bytes |-> <<>>]
        ELSE [err |-> "ok",
              bytes |-> scalar_name_bytes \o scalar_type_bytes.bytes \o scalar_data_bytes.bytes]

dmap_array_to_bytes(array) ==
    LET array_name_bytes == PackText(array.name \o <<0>>)
        array_type_bytes == PackTypeCode(array.data_type)
        array_dim_bytes == struct_pack("i", array.dimension)
        shape_packed == [i \in 1..Len(array.shape) |-> struct_pack("i", array.shape[i])]
        array_shape_bytes == Concat([i \in 1..Len(array.shape) |-> shape_packed[i].bytes])
        array_data_bytes ==
            Concat([i \in 1..Len(array.value) |-> ElemBytes(array.data_type_fmt, array.value[i])])
    IN  IF array_type_bytes.err # "ok" THEN [err |-> array_type_bytes.err, bytes |-> <<>>]
        ELSE IF array_dim_bytes.err # "ok" THEN [err |-> array_dim_bytes.err, bytes |-> <<>>]
        ELSE IF \E i \in 1..Len(array.shape) : shape_packed[i].err # "ok"
        THEN [err |-> "struct.error", bytes |-> <<>>]
        ELSE [err |-> "ok",
              bytes |-> array_name_bytes \o array_type_bytes.bytes \o array_dim_bytes.bytes
                        \o array_shape_bytes \o array_data_bytes]

\* the encoding of one field, by isinstance
FieldBytes(data_info) ==
    IF data_info.kind = "scalar" THEN dmap_scalar_to_bytes(data_info)
    ELSE IF data_info.kind = "array" THEN dmap_array_to_bytes(data_info)
    ELSE [err |-> "DmapTypeError", bytes |-> <<>>]

encoding_identifier == 65537

\* __dmap_record_to_bytes with block_size taken as the length of the
\* payload alone, the 16 bytes of the header forgotten
dmap_record_to_bytes_short_size(record) ==
    LET enc == [i \in 1..Len(record) |-> FieldBytes(record[i])]
        bad == {i \in 1..Len(record) : enc[i].err # "ok"}
        num_scalars == Cardinality({i \in 1..Len(record) : record[i].kind = "scalar"})
        num_arrays == Cardinality({i \in 1..Len(record) : record[i].kind = "array"})
        data_bytearray == Concat([i \in 1..Len(record) |-> enc[i].bytes])
    IN  IF bad # {}
        THEN [err |-> enc[CHOOSE i \in bad : \A j \in bad : i <= j].err, bytes |-> <<>>]
        ELSE [err |-> "ok",
              bytes |-> struct_pack("i", encoding_identifier).bytes
                        \o struct_pack("i", Len(data_bytearray)).bytes
                        \o struct_pack("i", num_scalars).bytes
                        \o struct_pack("i", num_arrays).bytes
                        \o data_bytearray]

\* __dmap_record_to_bytes that emits the scalars of the record before its
\* arrays instead of following the key order
dmap_record_to_bytes_grouped(record) ==
    LET grouped == SelectSeq(record, LAMBDA f : f.kind = "scalar")
                   \o SelectSeq(record, LAMBDA f : f.kind # "scalar")
        enc == [i \in 1..Len(grouped) |-> FieldBytes(grouped[i])]
        bad == {i \in 1..Len(grouped) : enc[i].err # "ok"}
        num_scalars == Cardinality({i \in 1..Len(record) : record[i].kind = "scalar"})
        num_arrays == Cardinality({i \in 1..Len(record) : record[i].kind = "array"})
        data_bytearray == Concat([i \in 1..Len(grouped) |-> enc[i].bytes])
    IN  IF bad # {}
        THEN [err |-> enc[CHOOSE i \in bad : \A j \in bad : i <= j].err, bytes |-> <<>>]
        ELSE [err |-> "ok",
              bytes |-> struct_pack("i", encoding_identifier).bytes
                        \o struct_pack("i", Len(data_bytearray) + 16).bytes
                        \o struct_pack("i", num_scalars).bytes
                        \o struct_pack("i", num_arrays).bytes
                        \o data_bytearray]

\* [err, bytes]: the bytes __dmap_record_to_bytes appends to dmap_bytearr;
\* an exception in a field leaves dmap_bytearr as it was
dmap_record_to_bytes(record) ==
    LET enc == [i \in 1..Len(record) |-> FieldBytes(record[i])]
        bad == {i \in 1..Len(record) : enc[i].err # "ok"}
        num_scalars == Cardinality({i \in 1..Len(record) : record[i].kind = "scalar"})
        num_arrays == Cardinality({i \in 1..Len(record) : record[i].kind = "array"})
        data_bytearray == Concat([i \in 1..Len(record) |-> enc[i].bytes])
        block_size == Len(data_bytearray) + 16
    IN  IF bad # {}
        THEN [err |-> enc[CHOOSE i \in bad : \A j \in bad : i <= j].err, bytes |-> <<>>]
        ELSE [err |-> "ok",
              bytes |-> struct_pack("i", encoding_identifier).bytes
                        \o struct_pack("i", block_size).bytes
                        \o struct_pack("i", num_scalars).bytes
                        \o struct_pack("i", num_arrays).bytes
                        \o data_bytearray]

(***************************************************************************)
(* DmapRead: the byte cursor.  Every read returns [err, cursor, val]: the  *)
(* exception raised ("ok" for none), the cursor it leaves and the value.   *)
(***************************************************************************)
Fail(e, c) == [err |-> e, cursor |-> c, val |-> <<>>]

\* bytes_check raises MismatchByteError exactly when this is TRUE
bytes_check(element, byte_check) == element > byte_check

\* zero_negative_check that lets a negative element pass
zero_negative_check_zero_only(element) ==
    IF element = 0 THEN "ZeroByteError" ELSE "ok"

\* the exception zero_negative_check raises for element
zero_negative_check(element) ==
    IF element = 0 THEN "ZeroByteError"
    ELSE IF element < 0 THEN "NegativeByteError"
    ELSE "ok"

\* check_data_type raises DmapDataTypeError exactly when this is FALSE
check_data_type(data_type) == data_type \in DOMAIN DMAP_DATA_TYPES

\* the index of the first NUL byte at or after the cursor c, -1 for none
FirstNul(b, c) ==
    LET nul == {i \in c..(Len(b) - 1) : b[i + 1] = 0}
    IN  IF nul = {} THEN 0 - 1 ELSE CHOOSE i \in nul : \A j \in nul : i <= j

read_data(b, c, data_type_fmt, data_fmt_bytes) ==
    IF c >= Len(b) THEN Fail("CursorError", c)
    ELSE IF Len(b) - c < data_fmt_bytes THEN Fail("CursorError", c)
    ELSE IF data_type_fmt = "c"
    THEN [err |-> "ok", cursor |-> c + data_fmt_bytes, val |-> <<b[c + 1]>>]
    ELSE IF data_type_fmt = "s"
    THEN \* the scan indexes the bytearray before it tests the bound, so a
         \* missing NUL ends in IndexError at index Len(b)
         LET n == FirstNul(b, c)
         IN  IF n < 0 THEN Fail("IndexError", c)
             ELSE IF bytes_check(n, Len(b)) THEN Fail("MismatchByteError", c)
             ELSE LET d == Utf8Decode(SubSeq(b, c + 1, n))
                  IN  [err |-> d.err, cursor |-> n + 1, val |-> d.text]
    ELSE IF FmtSize(data_type_fmt) = 0
    THEN \* struct.unpack_from('', ...) is the empty tuple: data[0] fails
         Fail("IndexError", c + data_fmt_bytes)
    ELSE [err |-> "ok", cursor |-> c + data_fmt_bytes,
          val |-> <<struct_unpack(data_type_fmt, SubSeq(b, c + 1, c + data_fmt_bytes))>>]

\* k successive read_data calls, the values concatenated (a string element
\* is kept with its terminating NUL so that elements stay delimited)
RECURSIVE ReadElements(_, _, _, _, _)
ReadElements(b, c, fmt, nbytes, k) ==
    IF k <= 0 THEN [err |-> "ok", cursor |-> c, val |-> <<>>]
    ELSE LET d == read_data(b, c, fmt, nbytes)
         IN  IF d.err # "ok" THEN Fail(d.err, d.cursor)
             ELSE LET r == ReadElements(b, d.cursor, fmt, nbytes, k - 1)
                      v == IF fmt = "s" THEN d.val \o <<0>> ELSE d.val
                  IN  [err |-> r.err, cursor |-> r.cursor,
                       val |-> IF r.err = "ok" THEN v \o r.val ELSE <<>>]

\* for dim_size in shape: for i in range(dim_size): read_data(...)
RECURSIVE read_string_array(_, _, _, _, _)
read_string_array(b, c, shape, array_type_fmt, array_fmt_bytes) ==
    IF shape = <<>> THEN [err |-> "ok", cursor |-> c, val |-> <<>>]
    ELSE LET d == ReadElements(b, c, array_type_fmt, array_fmt_bytes, Head(shape))
         IN  IF d.err # "ok" THEN Fail(d.err, d.cursor)
             ELSE LET r == read_string_array(b, d.cursor, Tail(shape),
                                             array_type_fmt, array_fmt_bytes)
                  IN  [err |-> r.err, cursor |-> r.cursor,
                       val |-> IF r.err = "ok" THEN d.val \o r.val ELSE <<>>]

\* np.frombuffer(buffer, fmt, count, offset) and the cursor advance that
\* follows it; numpy raises ValueError for an offset outside the buffer and
\* for a buffer smaller than the count asks, and reads to the end of the
\* buffer for a negative count
read_numerical_array(b, c, data_type_fmt, total_number_cells, data_fmt_bytes) ==
    LET itemsize == FmtSize(data_type_fmt)
        avail == Len(b) - c
        n == IF total_number_cells < 0 THEN avail \div itemsize ELSE total_number_cells
    IN  IF c < 0 \/ c > Len(b) THEN Fail("ValueError", c)
        ELSE IF total_number_cells < 0 /\ avail % itemsize # 0 THEN Fail("ValueError", c)
        ELSE IF total_number_cells >= 0 /\ avail < total_number_cells * itemsize
        THEN Fail("ValueError", c)
        ELSE [err |-> "ok", cursor |-> c + total_number_cells * data_fmt_bytes,
              val |-> [i \in 1..n |->
                         struct_unpack(data_type_fmt,
                                       SubSeq(b, c + (i - 1) * itemsize + 1, c + i * itemsize))]]

(***************************************************************************)
(* DmapRead: scalars, arrays and records.  These return                    *)
(* [err, cursor, field] and [err, cursor, record].                         *)
(***************************************************************************)
NoField == DmapScalar(<<>>, <<>>, 0, "")

FailField(e, c) == [err |-> e, cursor |-> c, field |-> NoField]

\* Python's "fmt != DMAP" for a str fmt and the int DMAP: always unequal
StrNotEqualInt(fmt, code) == TRUE

\* read_scalar is written as a chain, one operator per read, each handed
\* the result of the read before it

\* the return of read_scalar
read_scalar_return(scalar_name, scalar_type, scalar_type_fmt, scalar_value) ==
    IF scalar_value.err # "ok" THEN FailField(scalar_value.err, scalar_value.cursor)
    ELSE [err |-> "ok", cursor |-> scalar_value.cursor,
          field |-> DmapScalar(scalar_name, scalar_value.val, scalar_type, scalar_type_fmt)]

\* check_data_type and the read of the value
read_scalar_value(b, scalar_name, scalar_type) ==
    IF scalar_type.err # "ok" THEN FailField(scalar_type.err, scalar_type.cursor)
    ELSE IF ~check_data_type(scalar_type.val[1])
    THEN FailField("DmapDataTypeError", scalar_type.cursor)
    ELSE IF StrNotEqualInt(DMAP_DATA_TYPES[scalar_type.val[1]][1], DMAP)
    THEN read_scalar_return(scalar_name, scalar_type.val[1],
                            DMAP_DATA_TYPES[scalar_type.val[1]][1],
                            read_data(b, scalar_type.cursor,
                                      DMAP_DATA_TYPES[scalar_type.val[1]][1],
                                      DMAP_DATA_TYPES[scalar_type.val[1]][2]))
    ELSE FailField("DmapDataError", scalar_type.cursor)

\* the read of the type code
read_scalar_type(b, scalar_name) ==
    IF scalar_name.err # "ok" THEN FailField(scalar_name.err, scalar_name.cursor)
    ELSE read_scalar_value(b, scalar_name.val, read_data(b, scalar_name.cursor, "c", 1))

read_scalar(b, c) == read_scalar_type(b, read_data(b, c, "s", 1))

\* the name "slist"
slist == <<115, 108, 105, 115, 116>>

\* what the raise for a dimension size <= 0 ends in: the message template
\* names {shape} while str.format is given dim= and cursor=, so building
\* the message raises KeyError and DmapDataError is never constructed
ZeroDimensionError == "KeyError"

\* read_array is written as the same kind of chain

\* the return of read_array
read_array_return(array_name, array_type, array_dimension, array_shape, array_value) ==
    IF array_value.err # "ok" THEN FailField(array_value.err, array_value.cursor)
    ELSE [err |-> "ok", cursor |-> array_value.cursor,
          field |-> DmapArray(array_name, array_value.val, array_type,
                              DMAP_DATA_TYPES[array_type][1], array_dimension, array_shape)]

\* read_array without the check of each shape entry against record_size
read_array_value_unbounded(b, c, record_size, array_name, array_type, array_dimension, array_shape) ==
    LET array_type_fmt == DMAP_DATA_TYPES[array_type][1]
        array_fmt_bytes == DMAP_DATA_TYPES[array_type][2]
        total_num_cells == Product(array_shape)
    IN  IF Len(array_shape) # array_dimension
        THEN FailField("DmapDataError", c)
        ELSE IF (\E i \in 1..Len(array_shape) : array_shape[i] <= 0)
                /\ array_name # slist
        THEN FailField(ZeroDimensionError, c)
        ELSE IF bytes_check(total_num_cells, record_size)
        THEN FailField("MismatchByteError", c)
        ELSE IF bytes_check(total_num_cells * array_fmt_bytes, record_size)
        THEN FailField("MismatchByteError", c)
        ELSE IF array_type_fmt = "s" \/ array_type_fmt = "c"
        THEN read_array_return(array_name, array_type, array_dimension, array_shape,
                 read_string_array(b, c, array_shape, array_type_fmt, array_fmt_bytes))
        ELSE IF array_type = DMAP
        THEN FailField("DmapDataError", c)
        ELSE read_array_return(array_name, array_type, array_dimension, array_shape,
                 read_numerical_array(b, c, array_type_fmt, total_num_cells,
                                      array_fmt_bytes))

\* the checks of the shape and the read of the values, at cursor c
read_array_value(b, c, record_size, array_name, array_type, array_dimension, array_shape) ==
    LET array_type_fmt == DMAP_DATA_TYPES[array_type][1]
        array_fmt_bytes == DMAP_DATA_TYPES[array_type][2]
        total_num_cells == Product(array_shape)
    IN  IF Len(array_shape) # array_dimension
        THEN FailField("DmapDataError", c)
        ELSE IF (\E i \in 1..Len(array_shape) : array_shape[i] <= 0)
                /\ array_name # slist
        THEN FailField(ZeroDimensionError, c)
        ELSE IF \E i \in 1..Len(array_shape) : array_shape[i] >= record_size
        THEN FailField("DmapDataError", c)
        ELSE IF bytes_check(total_num_cells, record_size)
        THEN FailField("MismatchByteError", c)
        ELSE IF bytes_check(total_num_cells * array_fmt_bytes, record_size)
        THEN FailField("MismatchByteError", c)
        ELSE IF array_type_fmt = "s" \/ array_type_fmt = "c"
        THEN read_array_return(array_name, array_type, array_dimension, array_shape,
                 read_string_array(b, c, array_shape, array_type_fmt, array_fmt_bytes))
        ELSE IF array_type = DMAP
        THEN FailField("DmapDataError", c)
        ELSE read_array_return(array_name, array_type, array_dimension, array_shape,
                 read_numerical_array(b, c, array_type_fmt, total_num_cells,
                                      array_fmt_bytes))

\* array_shape.reverse()
read_array_reverse(b, record_size, array_name, array_type, array_dimension, dims) ==
    IF dims.err # "ok" THEN FailField(dims.err, dims.cursor)
    ELSE read_array_value(b, dims.cursor, record_size, array_name, array_type,
                          array_dimension, Reverse(dims.val))

\* the checks of the dimension and the read of the shape
read_array_shape(b, record_size, array_name, array_type, array_dimension) ==
    IF array_dimension.err # "ok"
    THEN FailField(array_dimension.err, array_dimension.cursor)
    ELSE IF bytes_check(array_dimension.val[1], record_size)
    THEN FailField("MismatchByteError", array_dimension.cursor)
    ELSE IF zero_negative_check(array_dimension.val[1]) # "ok"
    THEN FailField(zero_negative_check(array_dimension.val[1]), array_dimension.cursor)
    ELSE read_array_reverse(b, record_size, array_name, array_type,
                            array_dimension.val[1],
                            ReadElements(b, array_dimension.cursor, "i", 4,
                                         array_dimension.val[1]))

\* check_data_type and the read of the dimension
read_array_dimension(b, record_size, array_name, array_type) ==
    IF array_type.err # "ok" THEN FailField(array_type.err, array_type.cursor)
    ELSE IF ~check_data_type(array_type.val[1])
    THEN FailField("DmapDataTypeError", array_type.cursor)
    ELSE read_array_shape(b, record_size, array_name, array_type.val[1],
                          read_data(b, array_type.cursor, "i", 4))

\* the read of the type code
read_array_type(b, record_size, array_name) ==
    IF array_name.err # "ok" THEN FailField(array_name.err, array_name.cursor)
    ELSE read_array_dimension(b, record_size, array_name.val,
                              read_data(b, array_name.cursor, "c", 1))

read_array(b, c, record_size) == read_array_type(b, record_size, read_data(b, c, "s", 1))

FailRecord(e, c) == [err |-> e, cursor |-> c, record |-> <<>>]

\* record[scalar.name] = scalar
PutField(r, record) ==
    IF r.err # "ok" THEN FailRecord(r.err, r.cursor)
    ELSE [err |-> "ok", cursor |-> r.cursor, record |-> DictPut(record, r.field)]

\* for i in range(num_scalars): record[scalar.name] = read_scalar()
RECURSIVE ReadScalars(_, _, _)
ReadScalars(b, k, acc) ==
    IF k <= 0 \/ acc.err # "ok" THEN acc
    ELSE ReadScalars(b, k - 1, PutField(read_scalar(b, acc.cursor), acc.record))

\* for i in range(num_arrays): record[array.name] = read_array(block_size)
RECURSIVE ReadArrays(_, _, _, _)
ReadArrays(b, k, acc, block_size) ==
    IF k <= 0 \/ acc.err # "ok" THEN acc
    ELSE ReadArrays(b, k - 1, PutField(read_array(b, acc.cursor, block_size), acc.record),
                    block_size)

\* read_record is written as the same kind of chain

\* read_record returning without the cursor check
read_record_return_unchecked(start_cursor_value, block_size, arrays) == arrays

\* read_record raising only when the fields ran past the declared size
read_record_return_overrun_only(start_cursor_value, block_size, arrays) ==
    IF arrays.err # "ok" THEN arrays
    ELSE IF (arrays.cursor - start_cursor_value) > block_size
    THEN FailRecord("CursorError", arrays.cursor)
    ELSE arrays

\* the cursor check and the return
read_record_return(start_cursor_value, block_size, arrays) ==
    IF arrays.err # "ok" THEN arrays
    ELSE IF (arrays.cursor - start_cursor_value) # block_size
    THEN FailRecord("CursorError", arrays.cursor)
    ELSE arrays

\* the checks of the two counts and the two loops
read_record_fields(b, start_cursor_value, block_size, num_scalars, num_arrays) ==
    IF num_arrays.err # "ok" THEN FailRecord(num_arrays.err, num_arrays.cursor)
    ELSE IF zero_negative_check(num_scalars) # "ok"
    THEN FailRecord(zero_negative_check(num_scalars), num_arrays.cursor)
    ELSE IF zero_negative_check(num_arrays.val[1]) # "ok"
    THEN FailRecord(zero_negative_check(num_arrays.val[1]), num_arrays.cursor)
    ELSE IF bytes_check(num_scalars + num_arrays.val[1], block_size)
    THEN FailRecord("MismatchByteError", num_arrays.cursor)
    ELSE read_record_return(start_cursor_value, block_size,
             ReadArrays(b, num_arrays.val[1],
                        ReadScalars(b, num_scalars,
                                    [err |-> "ok", cursor |-> num_arrays.cursor,
                                     record |-> <<>>]),
                        block_size))

\* the read of num_arrays
read_record_counts(b, start_cursor_value, block_size, num_scalars) ==
    IF num_scalars.err # "ok" THEN FailRecord(num_scalars.err, num_scalars.cursor)
    ELSE read_record_fields(b, start_cursor_value, block_size, num_scalars.val[1],
                            read_data(b, num_scalars.cursor, "i", 4))

\* read_record without the check of block_size against the remaining bytes
read_record_size_unchecked(b, start_cursor_value, block_size) ==
    IF block_size.err # "ok" THEN FailRecord(block_size.err, block_size.cursor)
    ELSE IF zero_negative_check(block_size.val[1]) # "ok"
    THEN FailRecord(zero_negative_check(block_size.val[1]), block_size.cursor)
    ELSE read_record_counts(b, start_cursor_value, block_size.val[1],
                            read_data(b, block_size.cursor, "i", 4))

\* read_record_size that lets a block_size of zero or less pass
read_record_size_sign_unchecked(b, start_cursor_value, block_size) ==
    IF block_size.err # "ok" THEN FailRecord(block_size.err, block_size.cursor)
    ELSE IF bytes_check(block_size.val[1],
                        Len(b) - block_size.cursor + 2 * DMAP_DATA_TYPES[INT][2])
    THEN FailRecord("MismatchByteError", block_size.cursor)
    ELSE read_record_counts(b, start_cursor_value, block_size.val[1],
                            read_data(b, block_size.cursor, "i", 4))

\* the checks of block_size and the read of num_scalars
read_record_size(b, start_cursor_value, block_size) ==
    IF block_size.err # "ok" THEN FailRecord(block_size.err, block_size.cursor)
    ELSE IF bytes_check(block_size.val[1],
                        Len(b) - block_size.cursor + 2 * DMAP_DATA_TYPES[INT][2])
    THEN FailRecord("MismatchByteError", block_size.cursor)
    ELSE IF zero_negative_check(block_size.val[1]) # "ok"
    THEN FailRecord(zero_negative_check(block_size.val[1]), block_size.cursor)
    ELSE read_record_counts(b, start_cursor_value, block_size.val[1],
                            read_data(b, block_size.cursor, "i", 4))

\* [err, cursor, record] of read_record at cursor c
read_record(b, c) == read_record_size(b, c, read_data(b, c + 4, "i", 4))

\* read_records on a fresh reader over the buffer b: [err, records]
RECURSIVE ReadAll(_, _, _)
ReadAll(b, c, acc) ==
    IF c >= Len(b)
    THEN [err |-> IF bytes_check(c, Len(b)) THEN "MismatchByteError" ELSE "ok",
          records |-> acc]
    ELSE IF read_record(b, c).err # "ok"
    THEN [err |-> read_record(b, c).err, records |-> acc]
    ELSE ReadAll(b, read_record(b, c).cursor, Append(acc, read_record(b, c).record))

read_records(b) == ReadAll(b, 0, <<>>)

(***************************************************************************)
(* Product schemas.  pydarn.superdarn_formats is not among the source      *)
(* files, so the tables are written from the specification: each product   *)
(* has a required group, grid one and map four optional groups, and a      *)
(* group maps field names to struct format characters.  The tables are     *)
(* abridged to a few fields per group.                                     *)
(***************************************************************************)
stid == <<115, 116, 105, 100>>      \* "stid"
tsc == <<116, 115, 99>>             \* "tsc"
pwr0 == <<112, 119, 114, 48>>       \* "pwr0"
nvec == <<110, 118, 101, 99>>       \* "nvec"
pwr == <<112, 119, 114>>            \* "pwr"
wdt == <<119, 100, 116>>            \* "wdt"
fitN == <<78>>                      \* "N"
mlat == <<109, 108, 97, 116>>       \* "mlat"
bmlt == <<98, 109, 108, 116>>       \* "bmlt"
xtra == <<120>>                     \* "x", a name of no schema

Iqdat_types == (stid :> "h") @@ (tsc :> "i")
Rawacf_types == (stid :> "h") @@ (slist :> "h") @@ (pwr0 :> "f")
Fitacf_types == (stid :> "h") @@ (slist :> "h") @@ (pwr0 :> "f")
Grid_types == (stid :> "h") @@ (nvec :> "h")
Grid_extra_fields == (pwr :> "f") @@ (wdt :> "f")
Map_types == (stid :> "h") @@ (nvec :> "h")
Map_extra_fields == (pwr :> "f") @@ (wdt :> "f")
Map_fit_fields == (fitN :> "d")
Map_model_fields == (mlat :> "f")
Map_hmb_fields == (bmlt :> "f")

SchemaFormats == {"iqdat", "rawacf", "fitacf", "grid", "map"}

RawFormats == {"dmap", "stream"}

\* the file_struct_list each write_<product> method passes on
file_struct_list(fmt) ==
    CASE fmt = "iqdat" -> <<Iqdat_types>>
      [] fmt = "rawacf" -> <<Rawacf_types>>
      [] fmt = "fitacf" -> <<Fitacf_types>>
      [] fmt = "grid" -> <<Grid_types, Grid_extra_fields>>
      [] fmt = "map" -> <<Map_types, Map_extra_fields, Map_fit_fields,
                          Map_model_fields, Map_hmb_fields>>
      [] OTHER -> <<>>

(***************************************************************************)
(* DmapWrite: the format validator                                         *)
(***************************************************************************)
\* set(dict1) - set(dict2) on key sets
dict_key_diff(dict1, dict2) == dict1 \ dict2

\* the union of the key sets of a list of dictionaries
dict_list2set(dict_list) == UNION {DOMAIN dict_list[i] : i \in 1..Len(dict_list)}

\* missing_field_check without the exemption of a group that is absent
\* as a whole: every absent field of every group counts as missing
missing_field_check_any(struct_list, record) ==
    UNION {dict_key_diff(DOMAIN struct_list[i],
                         KeySet(record) \cap dict_list2set(struct_list)) :
               i \in 1..Len(struct_list)}

\* the set missing_fields; SuperDARNFieldMissing is raised when it is not empty
missing_field_check(struct_list, record) ==
    LET complete_set == dict_list2set(struct_list)
        diff_fields(i) == dict_key_diff(DOMAIN struct_list[i],
                                        KeySet(record) \cap complete_set)
    IN  UNION {diff_fields(i) : i \in {j \in 1..Len(struct_list) :
                   Cardinality(diff_fields(j)) \notin
                       {0, Cardinality(DOMAIN struct_list[j])}}}

\* the set extra_fields; SuperDARNFieldExtra is raised when it is not empty
extra_field_check(struct_list, record) ==
    dict_key_diff(KeySet(record), dict_list2set(struct_list))

\* complete_dict: the groups merged by dict.update, a later group winning
complete_dict(struct_list) ==
    [param \in dict_list2set(struct_list) |->
        LET last == CHOOSE i \in 1..Len(struct_list) :
                        /\ param \in DOMAIN struct_list[i]
                        /\ \A j \in 1..Len(struct_list) :
                               param \in DOMAIN struct_list[j] => j <= i
        IN  struct_list[last][param]]

\* incorrect_types_check that looks at the scalars of the record only
incorrect_types_check_scalars(struct_list, record) ==
    {record[i].name : i \in {j \in 1..Len(record) :
        /\ record[j].kind = "scalar"
        /\ record[j].data_type_fmt # complete_dict(struct_list)[record[j].name]}}

\* the keys of the dictionary incorrect_types_check builds;
\* SuperDARNDataFormatError is raised when it is not empty
incorrect_types_check(struct_list, record) ==
    {record[i].name : i \in {j \in 1..Len(record) :
        record[j].data_type_fmt # complete_dict(struct_list)[record[j].name]}}

\* the field checks with missing_field_check called before extra_field_check
field_checks_missing_first(struct_list, record) ==
    IF missing_field_check(struct_list, record) # {}
    THEN [kind |-> "SuperDARNFieldMissing",
          fields |-> missing_field_check(struct_list, record)]
    ELSE IF extra_field_check(struct_list, record) # {}
    THEN [kind |-> "SuperDARNFieldExtra", fields |-> extra_field_check(struct_list, record)]
    ELSE IF incorrect_types_check(struct_list, record) # {}
    THEN [kind |-> "SuperDARNDataFormatError",
          fields |-> incorrect_types_check(struct_list, record)]
    ELSE [kind |-> "ok", fields |-> {}]

\* the three field checks on one record, in the order of
\* superDARN_file_structure_to_bytes: [kind, fields] of the exception raised
field_checks(struct_list, record) ==
    IF extra_field_check(struct_list, record) # {}
    THEN [kind |-> "SuperDARNFieldExtra", fields |-> extra_field_check(struct_list, record)]
    ELSE IF missing_field_check(struct_list, record) # {}
    THEN [kind |-> "SuperDARNFieldMissing",
          fields |-> missing_field_check(struct_list, record)]
    ELSE IF incorrect_types_check(struct_list, record) # {}
    THEN [kind |-> "SuperDARNDataFormatError",
          fields |-> incorrect_types_check(struct_list, record)]
    ELSE [kind |-> "ok", fields |-> {}]

(***************************************************************************)
(* DmapRead: one pass of the loop of test_initial_data_integrity           *)
(***************************************************************************)
\* [err, cursor, total]: the exception, the cursor and total_block_size
\* after one iteration that starts at cursor c with the total so far
\* the iteration without the bytes_check of the running total
prescan_block_size_unchecked(b, total, block_size) ==
    IF block_size.err # "ok"
    THEN [err |-> block_size.err, cursor |-> block_size.cursor, total |-> total]
    ELSE IF zero_negative_check(block_size.val[1]) # "ok"
    THEN [err |-> zero_negative_check(block_size.val[1]),
          cursor |-> block_size.cursor, total |-> total]
    ELSE [err |-> "ok",
          cursor |-> block_size.cursor + block_size.val[1]
                     - 2 * DMAP_DATA_TYPES[INT][2],
          total |-> total + block_size.val[1]]

\* the prescan moving the cursor by block_size less the 4 bytes of
\* block_size alone
prescan_block_size_short_jump(b, total, block_size) ==
    IF block_size.err # "ok"
    THEN [err |-> block_size.err, cursor |-> block_size.cursor, total |-> total]
    ELSE IF zero_negative_check(block_size.val[1]) # "ok"
    THEN [err |-> zero_negative_check(block_size.val[1]),
          cursor |-> block_size.cursor, total |-> total]
    ELSE IF bytes_check(total + block_size.val[1], Len(b))
    THEN [err |-> "MismatchByteError", cursor |-> block_size.cursor,
          total |-> total + block_size.val[1]]
    ELSE [err |-> "ok",
          cursor |-> block_size.cursor + block_size.val[1] - DMAP_DATA_TYPES[INT][2],
          total |-> total + block_size.val[1]]

\* the prescan that lets a block_size of zero pass
prescan_block_size_zero_allowed(b, total, block_size) ==
    IF block_size.err # "ok"
    THEN [err |-> block_size.err, cursor |-> block_size.cursor, total |-> total]
    ELSE IF block_size.val[1] < 0
    THEN [err |-> "NegativeByteError", cursor |-> block_size.cursor, total |-> total]
    ELSE IF bytes_check(total + block_size.val[1], Len(b))
    THEN [err |-> "MismatchByteError", cursor |-> block_size.cursor,
          total |-> total + block_size.val[1]]
    ELSE [err |-> "ok",
          cursor |-> block_size.cursor + block_size.val[1]
                     - 2 * DMAP_DATA_TYPES[INT][2],
          total |-> total + block_size.val[1]]

prescan_block_size(b, total, block_size) ==
    IF block_size.err # "ok"
    THEN [err |-> block_size.err, cursor |-> block_size.cursor, total |-> total]
    ELSE IF zero_negative_check(block_size.val[1]) # "ok"
    THEN [err |-> zero_negative_check(block_size.val[1]),
          cursor |-> block_size.cursor, total |-> total]
    ELSE IF bytes_check(total + block_size.val[1], Len(b))
    THEN [err |-> "MismatchByteError", cursor |-> block_size.cursor,
          total |-> total + block_size.val[1]]
    ELSE [err |-> "ok",
          cursor |-> block_size.cursor + block_size.val[1]
                     - 2 * DMAP_DATA_TYPES[INT][2],
          total |-> total + block_size.val[1]]

prescan_block(b, c, total) == prescan_block_size(b, total, read_data(b, c + 4, "i", 4))

\* what the raise after the loop ends in: DmapDataError is given
\* self.data_file, an attribute DmapRead never sets, so evaluating the
\* argument raises AttributeError
CorruptFileError == "AttributeError"

(***************************************************************************)
(* Inputs                                                                  *)
(***************************************************************************)
\* the longest record list handed to a writer
MaxRecs == 2

SeqsUpTo(S, n) == UNION {[1..k -> S] : k \in 0..n}

\* the IEEE-754 bit patterns of the float32 values 1.0, 2.0, 3.0, 4.0
\* (the float64 value used is 0.0, whose bit pattern is 0)
F32 == <<1065353216, 1073741824, 1077936128, 1082130432>>

data == <<100, 97, 116, 97>>        \* "data"
note == <<110, 111, 116, 101>>      \* "note"

\* the type code of a format character
CodeOf(fmt) == CHOOSE code \in DOMAIN DMAP_DATA_TYPES : DMAP_DATA_TYPES[code][1] = fmt

\* records for the codec: the scenario record of the specification, a
\* rawacf record whose slist is empty, a record whose array "x" has a
\* zero-length dimension, a record with a string scalar and a 1 x 2 array,
\* and a record of one scalar and no array
CodecRecords ==
    { <<DmapScalar(stid, <<7>>, SHORT, "h"),
        DmapArray(data, F32, FLOAT, "f", 2, <<2, 2>>)>>,
      <<DmapScalar(stid, <<7>>, SHORT, "h"),
        DmapArray(slist, <<>>, SHORT, "h", 1, <<0>>),
        DmapArray(pwr0, <<F32[1], F32[2]>>, FLOAT, "f", 1, <<2>>)>>,
      <<DmapScalar(stid, <<7>>, SHORT, "h"),
        DmapArray(xtra, <<>>, SHORT, "h", 1, <<0>>)>>,
      <<DmapScalar(note, <<97, 98>>, STRING_T, "s"),
        DmapArray(nvec, <<5, 6>>, INT, "i", 2, <<1, 2>>)>>,
      <<DmapScalar(stid, <<7>>, SHORT, "h")>> }

CodecInputs ==
    {<<fmt, recs>> : fmt \in SchemaFormats \cup RawFormats,
                     recs \in SeqsUpTo(CodecRecords, MaxRecs)}

\* records for the validator: the fields named by S, in a fixed order with
\* the scalars first, those of W with a format that is not the schema's,
\* the arrays of Z with a zero-length dimension
ArrayNames == {tsc, slist, pwr0, pwr, wdt}

FieldOrder == <<stid, nvec, fitN, mlat, bmlt, xtra, tsc, slist, pwr0, pwr, wdt>>

SchemaFmt(fmt, name) ==
    IF name \in dict_list2set(file_struct_list(fmt))
    THEN complete_dict(file_struct_list(fmt))[name]
    ELSE "h"

OtherFmt(f) == IF f = "i" THEN "h" ELSE "i"

SampleValue(f) ==
    CASE f = "f" -> <<F32[1], F32[2]>>
      [] f = "d" -> <<0, 0>>
      [] OTHER -> <<1, 2>>

SampleField(fmt, name, wrong, z) ==
    LET f == IF wrong THEN OtherFmt(SchemaFmt(fmt, name)) ELSE SchemaFmt(fmt, name)
    IN  IF name \in ArrayNames
        THEN IF z THEN DmapArray(name, <<>>, CodeOf(f), f, 1, <<0>>)
             ELSE DmapArray(name, SampleValue(f), CodeOf(f), f, 1, <<2>>)
        ELSE DmapScalar(name, <<SampleValue(f)[1]>>, CodeOf(f), f)

SampleRecord(fmt, S, W, Z) ==
    LET names == SelectSeq(FieldOrder, LAMBDA n : n \in S)
    IN  [i \in 1..Len(names) |->
            SampleField(fmt, names[i], names[i] \in W, names[i] \in Z)]

SchemaNames(fmt) == dict_list2set(file_struct_list(fmt))

ValidatorRecords(fmt) ==
    {SampleRecord(fmt, S, W, Z) :
        S \in SUBSET (SchemaNames(fmt) \cup {xtra}),
        W \in {{}, {stid}, {nvec, tsc, pwr0, pwr}},
        Z \in {{}, {slist}, ArrayNames}}

\* the records that precede the last one of a list: a complete record and
\* one that lacks the field stid
LeadingRecords(fmt) ==
    {SampleRecord(fmt, DOMAIN file_struct_list(fmt)[1], {}, {}),
     SampleRecord(fmt, DOMAIN file_struct_list(fmt)[1] \ {stid}, {}, {})}

\* a complete record whose first field is constructed with a type code
\* that is not the code of its format character
MiscodedRecords(fmt) ==
    {[r EXCEPT ![1].data_type = CodeOf(OtherFmt(r[1].data_type_fmt))] :
        r \in {SampleRecord(fmt, DOMAIN file_struct_list(fmt)[1], {}, {})}}

ValidatorLists(fmt) ==
    {<<>>} \cup
    {lead \o <<r>> : lead \in SeqsUpTo(LeadingRecords(fmt), MaxRecs - 1),
                     r \in ValidatorRecords(fmt) \cup MiscodedRecords(fmt)}

ValidatorInputs ==
    UNION {{<<fmt, recs>> : recs \in ValidatorLists(fmt)} : fmt \in SchemaFormats}

(***************************************************************************)
(* State                                                                   *)
(***************************************************************************)
VARIABLES
    dmap_file_fmt,     \* DmapWrite: the format of the write method called
    dmap_records,      \* DmapWrite.dmap_records
    dmap_bytearr,      \* DmapWrite.dmap_bytearr
    rec_num,           \* the number of records the write loop has passed
    wpc,               \* the writer: "start", "loop", "done" or "error"
    werr,              \* the exception the writer raised: [kind, rec_num, fields]
    file,              \* the bytes written to the file or returned as the stream
    write_calls,       \* the write calls the caller has still to make
    tamper,            \* what happened to the bytes before they are read
    rd_bytearr,        \* DmapRead.dmap_bytearr
    cursor,            \* DmapRead.cursor
    records,           \* DmapRead.__dmap_records
    total_block_size,  \* the local total_block_size of the prescan
    method,            \* the DmapRead method called: "none", "prescan", "read"
    rpc,               \* the reader: "none", "failed", "idle", "running",
                       \* "returned" or "raised"
    rerr,              \* the exception the reader raised, "ok" for none
    calls              \* the calls on the reader: [left, made], the number of
                       \* method calls the caller has still to make and the
                       \* methods called so far

wvars == <<dmap_file_fmt, dmap_records, dmap_bytearr, rec_num, wpc, werr, file,
           write_calls>>

rvars == <<tamper, rd_bytearr, cursor, records, total_block_size, method, rpc, rerr,
           calls>>

vars == <<dmap_file_fmt, dmap_records, dmap_bytearr, rec_num, wpc, werr, file,
          write_calls,
          tamper, rd_bytearr, cursor, records, total_block_size, method, rpc, rerr,
          calls>>

NoError == [kind |-> "ok", rec_num |-> 0, fields |-> {}]

NoTamper == [kind |-> "none", arg |-> 0]

\* the caller makes one method call on the reader
OneCall == [left |-> 1, made |-> <<>>]

InitWith(inputs) ==
    /\ \E in \in inputs : dmap_file_fmt = in[1] /\ dmap_records = in[2]
    /\ dmap_bytearr = <<>>
    /\ rec_num = 0
    /\ wpc = "start"
    /\ werr = NoError
    /\ file = <<>>
    /\ write_calls = 1
    /\ tamper = NoTamper
    /\ rd_bytearr = <<>>
    /\ cursor = 0
    /\ records = <<>>
    /\ total_block_size = 0
    /\ method = "none"
    /\ rpc = "none"
    /\ rerr = "ok"
    /\ calls = OneCall

Init == InitWith(CodecInputs)

InitWrite == InitWith(ValidatorInputs)

(***************************************************************************)
(* DmapWrite                                                               *)
(***************************************************************************)
\* write_<format>, up to the loop over the records: __empty_record_check
\* (the writer is constructed with a file name, so __filename_check passes)
write_begin ==
    /\ write_calls > 0
    /\ wpc \in {"start", "done", "error"}
    /\ write_calls' = write_calls - 1
    /\ IF wpc = "start"
       THEN dmap_file_fmt' = dmap_file_fmt
       ELSE dmap_file_fmt' \in SchemaFormats \cup RawFormats
    /\ rec_num' = 0
    /\ IF dmap_records = <<>>
       THEN /\ wpc' = "error"
            /\ werr' = [kind |-> "DmapDataError", rec_num |-> 0, fields |-> {}]
       ELSE /\ wpc' = "loop"
            /\ werr' = NoError
    /\ UNCHANGED <<dmap_records, dmap_bytearr, file>>
    /\ UNCHANGED rvars

\* the schema-checked loop made to write each record to the file as soon
\* as it is encoded
superDARN_file_structure_to_bytes_streaming ==
    /\ wpc = "loop"
    /\ dmap_file_fmt \in SchemaFormats
    /\ rec_num < Len(dmap_records)
    /\ LET record == dmap_records[rec_num + 1]
           check == field_checks(file_struct_list(dmap_file_fmt), record)
           enc == dmap_record_to_bytes(record)
       IN  IF check.kind # "ok"
           THEN /\ wpc' = "error"
                /\ werr' = [kind |-> check.kind, rec_num |-> rec_num,
                            fields |-> check.fields]
                /\ UNCHANGED <<dmap_bytearr, rec_num, file>>
           ELSE IF enc.err # "ok"
           THEN /\ wpc' = "error"
                /\ werr' = [kind |-> enc.err, rec_num |-> rec_num, fields |-> {}]
                /\ UNCHANGED <<dmap_bytearr, rec_num, file>>
           ELSE /\ dmap_bytearr' = dmap_bytearr \o enc.bytes
                /\ file' = dmap_bytearr \o enc.bytes
                /\ rec_num' = rec_num + 1
                /\ UNCHANGED <<wpc, werr>>
    /\ UNCHANGED <<dmap_file_fmt, dmap_records, write_calls>>
    /\ UNCHANGED rvars

\* one pass of the loop of superDARN_file_structure_to_bytes: the field
\* checks on record rec_num, then __dmap_record_to_bytes
superDARN_file_structure_to_bytes ==
    /\ wpc = "loop"
    /\ dmap_file_fmt \in SchemaFormats
    /\ rec_num < Len(dmap_records)
    /\ LET record == dmap_records[rec_num + 1]
           check == field_checks(file_struct_list(dmap_file_fmt), record)
           enc == dmap_record_to_bytes(record)
       IN  IF check.kind # "ok"
           THEN /\ wpc' = "error"
                /\ werr' = [kind |-> check.kind, rec_num |-> rec_num,
                            fields |-> check.fields]
                /\ UNCHANGED <<dmap_bytearr, rec_num>>
           ELSE IF enc.err # "ok"
           THEN /\ wpc' = "error"
                /\ werr' = [kind |-> enc.err, rec_num |-> rec_num, fields |-> {}]
                /\ UNCHANGED <<dmap_bytearr, rec_num>>
           ELSE /\ dmap_bytearr' = dmap_bytearr \o enc.bytes
                /\ rec_num' = rec_num + 1
                /\ UNCHANGED <<wpc, werr>>
    /\ UNCHANGED <<dmap_file_fmt, dmap_records, file, write_calls>>
    /\ UNCHANGED rvars

\* the raw loop made to run the field checks of the schema-checked loop
dmap_records_to_bytes_checked ==
    /\ wpc = "loop"
    /\ dmap_file_fmt \in RawFormats
    /\ rec_num < Len(dmap_records)
    /\ LET record == dmap_records[rec_num + 1]
           check == field_checks(file_struct_list(dmap_file_fmt), record)
           enc == dmap_record_to_bytes(record)
       IN  IF check.kind # "ok"
           THEN /\ wpc' = "error"
                /\ werr' = [kind |-> check.kind, rec_num |-> rec_num,
                            fields |-> check.fields]
                /\ UNCHANGED <<dmap_bytearr, rec_num>>
           ELSE IF enc.err # "ok"
           THEN /\ wpc' = "error"
                /\ werr' = [kind |-> enc.err, rec_num |-> rec_num, fields |-> {}]
                /\ UNCHANGED <<dmap_bytearr, rec_num>>
           ELSE /\ dmap_bytearr' = dmap_bytearr \o enc.bytes
                /\ rec_num' = rec_num + 1
                /\ UNCHANGED <<wpc, werr>>
    /\ UNCHANGED <<dmap_file_fmt, dmap_records, file, write_calls>>
    /\ UNCHANGED rvars

\* one pass of the loop of dmap_records_to_bytes: no field checks
dmap_records_to_bytes ==
    /\ wpc = "loop"
    /\ dmap_file_fmt \in RawFormats
    /\ rec_num < Len(dmap_records)
    /\ LET enc == dmap_record_to_bytes(dmap_records[rec_num + 1])
       IN  IF enc.err # "ok"
           THEN /\ wpc' = "error"
                /\ werr' = [kind |-> enc.err, rec_num |-> rec_num, fields |-> {}]
                /\ UNCHANGED <<dmap_bytearr, rec_num>>
           ELSE /\ dmap_bytearr' = dmap_bytearr \o enc.bytes
                /\ rec_num' = rec_num + 1
                /\ UNCHANGED <<wpc, werr>>
    /\ UNCHANGED <<dmap_file_fmt, dmap_records, file, write_calls>>
    /\ UNCHANGED rvars

\* after the loop: f.write(self.dmap_bytearr), or return self.dmap_bytearr
write_file ==
    /\ wpc = "loop"
    /\ rec_num = Len(dmap_records)
    /\ file' = dmap_bytearr
    /\ wpc' = "done"
    /\ UNCHANGED <<dmap_file_fmt, dmap_records, dmap_bytearr, rec_num, werr, write_calls>>
    /\ UNCHANGED rvars

(***************************************************************************)
(* What may happen to the written bytes before they are read: nothing,     *)
(* the loss of the last k bytes, or the block_size field of record j       *)
(* raised by one                                                           *)
(***************************************************************************)
\* the length of the encoding of each record of a list
EncodedLengths(recs) == [i \in 1..Len(recs) |-> Len(dmap_record_to_bytes(recs[i]).bytes)]

\* the offset at which record j of the list starts in the written bytes
RecordOffset(recs, j) == Sum(Take(EncodedLengths(recs), j - 1))

\* the offsets at which a record of the list ends
RecordEnds(recs) == {RecordOffset(recs, j + 1) : j \in 1..Len(recs)}

Truncate(b, k) == Take(b, Len(b) - k)

BumpBlockSize(b, off) ==
    LET old == struct_unpack("i", SubSeq(b, off + 5, off + 8))
    IN  Take(b, off + 4) \o struct_pack("i", old + 1).bytes \o Drop(b, off + 8)

Tampers(b, recs) ==
    {NoTamper} \cup {[kind |-> "trunc", arg |-> k] : k \in 1..Len(b)}
               \cup {[kind |-> "bump", arg |-> j] : j \in 1..Len(recs)}

Tampered(t, b, recs) ==
    CASE t.kind = "trunc" -> Truncate(b, t.arg)
      [] t.kind = "bump" -> BumpBlockSize(b, RecordOffset(recs, t.arg))
      [] OTHER -> b

(***************************************************************************)
(* DmapRead                                                                *)
(***************************************************************************)
\* DmapRead.__init__ without the tests of an empty stream
DmapRead_init_unchecked ==
    /\ wpc \in {"done", "absent"}
    /\ rpc = "none"
    /\ \E t \in Tampers(file, dmap_records) :
          /\ tamper' = t
          /\ rpc' = "idle"
          /\ rerr' = "ok"
          /\ rd_bytearr' = Tampered(t, file, dmap_records)
    /\ UNCHANGED <<cursor, records, total_block_size, method, calls>>
    /\ UNCHANGED wvars

\* DmapRead(stream, data_stream=True) over the written bytes, or over the
\* bytes of a stream no writer of this module produced (wpc = "absent")
DmapRead_init ==
    /\ wpc \in {"done", "absent"}
    /\ rpc = "none"
    /\ \E t \in Tampers(file, dmap_records) :
          LET stream == Tampered(t, file, dmap_records)
          IN  /\ tamper' = t
              /\ IF Len(stream) = 0
                 THEN /\ rpc' = "failed"
                      /\ rerr' = "EmptyFileError"
                      /\ UNCHANGED rd_bytearr
                 ELSE /\ rpc' = "idle"
                      /\ rerr' = "ok"
                      /\ rd_bytearr' = stream
    /\ UNCHANGED <<cursor, records, total_block_size, method, calls>>
    /\ UNCHANGED wvars

\* test_initial_data_integrity that rewinds a cursor that is not 0 instead
\* of raising
prescan_begin_rewinding ==
    /\ calls.left > 0
    /\ rpc \in {"idle", "returned", "raised"}
    /\ calls' = [left |-> calls.left - 1, made |-> Append(calls.made, "prescan")]
    /\ method' = "prescan"
    /\ total_block_size' = 0
    /\ rpc' = "running"
    /\ rerr' = "ok"
    /\ cursor' = 0
    /\ UNCHANGED <<tamper, rd_bytearr, records>>
    /\ UNCHANGED wvars

\* test_initial_data_integrity, up to its loop
prescan_begin ==
    /\ calls.left > 0
    /\ rpc \in {"idle", "returned", "raised"}
    /\ calls' = [left |-> calls.left - 1, made |-> Append(calls.made, "prescan")]
    /\ method' = "prescan"
    /\ total_block_size' = 0
    /\ IF cursor # 0
       THEN rpc' = "raised" /\ rerr' = "CursorError"
       ELSE rpc' = "running" /\ rerr' = "ok"
    /\ UNCHANGED <<tamper, rd_bytearr, cursor, records>>
    /\ UNCHANGED wvars

\* one pass of the loop of test_initial_data_integrity
prescan_step ==
    /\ rpc = "running"
    /\ method = "prescan"
    /\ cursor < Len(rd_bytearr)
    /\ LET r == prescan_block(rd_bytearr, cursor, total_block_size)
       IN  /\ cursor' = r.cursor
           /\ total_block_size' = r.total
           /\ IF r.err # "ok"
              THEN rpc' = "raised" /\ rerr' = r.err
              ELSE UNCHANGED <<rpc, rerr>>
    /\ UNCHANGED <<tamper, rd_bytearr, records, method, calls>>
    /\ UNCHANGED wvars

\* test_initial_data_integrity that leaves the cursor at the end of the
\* buffer
prescan_end_no_rewind ==
    /\ rpc = "running"
    /\ method = "prescan"
    /\ cursor >= Len(rd_bytearr)
    /\ IF total_block_size # Len(rd_bytearr)
       THEN /\ rpc' = "raised"
            /\ rerr' = CorruptFileError
            /\ UNCHANGED cursor
       ELSE /\ rpc' = "returned"
            /\ rerr' = "ok"
            /\ UNCHANGED cursor
    /\ UNCHANGED <<tamper, rd_bytearr, records, total_block_size, method, calls>>
    /\ UNCHANGED wvars

\* test_initial_data_integrity, after its loop
prescan_end ==
    /\ rpc = "running"
    /\ method = "prescan"
    /\ cursor >= Len(rd_bytearr)
    /\ IF total_block_size # Len(rd_bytearr)
       THEN /\ rpc' = "raised"
            /\ rerr' = CorruptFileError
            /\ UNCHANGED cursor
       ELSE /\ rpc' = "returned"
            /\ rerr' = "ok"
            /\ cursor' = 0
    /\ UNCHANGED <<tamper, rd_bytearr, records, total_block_size, method, calls>>
    /\ UNCHANGED wvars

\* read_records is called
read_records_begin ==
    /\ calls.left > 0
    /\ rpc \in {"idle", "returned", "raised"}
    /\ calls' = [left |-> calls.left - 1, made |-> Append(calls.made, "read")]
    /\ method' = "read"
    /\ rpc' = "running"
    /\ rerr' = "ok"
    /\ UNCHANGED <<tamper, rd_bytearr, cursor, records, total_block_size>>
    /\ UNCHANGED wvars

\* one pass of the loop of read_records: read_record and the append
read_records_step ==
    /\ rpc = "running"
    /\ method = "read"
    /\ cursor < Len(rd_bytearr)
    /\ LET new_record == read_record(rd_bytearr, cursor)
       IN  /\ cursor' = new_record.cursor
           /\ IF new_record.err # "ok"
              THEN /\ rpc' = "raised"
                   /\ rerr' = new_record.err
                   /\ UNCHANGED records
              ELSE /\ records' = Append(records, new_record.record)
                   /\ UNCHANGED <<rpc, rerr>>
    /\ UNCHANGED <<tamper, rd_bytearr, total_block_size, method, calls>>
    /\ UNCHANGED wvars

\* read_records, after its loop: the last bytes_check and the return
read_records_end ==
    /\ rpc = "running"
    /\ method = "read"
    /\ cursor >= Len(rd_bytearr)
    /\ IF bytes_check(cursor, Len(rd_bytearr))
       THEN rpc' = "raised" /\ rerr' = "MismatchByteError"
       ELSE rpc' = "returned" /\ rerr' = "ok"
    /\ UNCHANGED <<tamper, rd_bytearr, cursor, records, total_block_size, method, calls>>
    /\ UNCHANGED wvars

(***************************************************************************)
(* Specifications                                                          *)
(***************************************************************************)
\* the writer under its validator inputs
NextWrite ==
    \/ write_begin
    \/ superDARN_file_structure_to_bytes
    \/ write_file

SpecWrite == InitWrite /\ [][NextWrite]_vars

\* a writer, then a reader over what it wrote
Next ==
    \/ write_begin
    \/ superDARN_file_structure_to_bytes
    \/ dmap_records_to_bytes
    \/ write_file
    \/ DmapRead_init
    \/ prescan_begin
    \/ prescan_step
    \/ prescan_end
    \/ read_records_begin
    \/ read_records_step
    \/ read_records_end

Spec == Init /\ [][Next]_vars

(***************************************************************************)
(* Properties of the writer (SpecWrite).  The writer raises at the first   *)
(* record whose loop pass fails, so a record is judged in the states in    *)
(* which its pass has been taken.                                          *)
(***************************************************************************)
\* the loop pass for record k (counted from 1) has been taken
Validated(k) ==
    \/ rec_num >= k
    \/ wpc = "error" /\ werr.kind # "DmapDataError" /\ werr.rec_num = k - 1

\* the writer raised the exception kind for record k with the field set
Raised(kind, k, fields) ==
    wpc = "error" /\ werr = [kind |-> kind, rec_num |-> k - 1, fields |-> fields]

\* the writer raised the exception kind for record k
RaisedKind(kind, k) == wpc = "error" /\ werr.kind = kind /\ werr.rec_num = k - 1

Groups == file_struct_list(dmap_file_fmt)

\* the fields of group i that the record lacks
Absent(i, record) == DOMAIN Groups[i] \ KeySet(record)

\* the groups the record holds in part
Partial(record) ==
    {i \in 1..Len(Groups) : Absent(i, record) \notin {{}, DOMAIN Groups[i]}}

\* the fields of the record that no group names
Extra(record) == KeySet(record) \ UNION {DOMAIN Groups[i] : i \in 1..Len(Groups)}

\* the fields of the record whose format is not the one the schema declares
Mismatched(record) ==
    {n \in KeySet(record) : \E j \in 1..Len(record) :
        /\ record[j].name = n
        /\ \E i \in 1..Len(Groups) :
              n \in DOMAIN Groups[i] /\ record[j].data_type_fmt # Groups[i][n]}

\* the arrays of the record with a zero-length dimension
ZeroDimArrays(record) ==
    {record[j].name : j \in {i \in 1..Len(record) :
        /\ record[i].kind = "array"
        /\ \E d \in 1..Len(record[i].shape) : record[i].shape[d] = 0}}

\* C3, as the specification states it: a record with no extra field that
\* lacks one or more fields of the required group (the first group) makes
\* the writer raise SuperDARNFieldMissing for its index with exactly the
\* absent required fields.  The code does not do this: see C3_Diverges.
C3_MissingRequired ==
    \A k \in 1..Len(dmap_records) :
        (Validated(k) /\ Extra(dmap_records[k]) = {} /\ Absent(1, dmap_records[k]) # {})
        => Raised("SuperDARNFieldMissing", k, Absent(1, dmap_records[k]))

\* a grid record that holds the optional group and no required field is
\* written without any exception
C3_Diverges ==
    /\ dmap_file_fmt = "grid"
    /\ wpc = "done"
    /\ Len(dmap_records) = 1
    /\ KeySet(dmap_records[1]) = {pwr, wdt}
    /\ Len(file) > 16

\* C4: under the grid and map schemas, a record with no extra field that
\* the writer reaches is rejected with SuperDARNFieldMissing exactly when it
\* holds some group in part, and then the field set is the union of the
\* absent members of the groups held in part; a group that is absent as a
\* whole raises nothing.
C4_OptionalGroupsAllOrNothing ==
    dmap_file_fmt \in {"grid", "map"} =>
    \A k \in 1..Len(dmap_records) :
        (Validated(k) /\ Extra(dmap_records[k]) = {}) =>
            IF Partial(dmap_records[k]) # {}
            THEN Raised("SuperDARNFieldMissing", k,
                        UNION {Absent(i, dmap_records[k]) : i \in Partial(dmap_records[k])})
            ELSE ~RaisedKind("SuperDARNFieldMissing", k)

\* a map record with the required group, pwr without wdt, and two optional
\* groups absent as a whole is rejected for wdt alone
C4_Witness ==
    /\ dmap_file_fmt = "map"
    /\ wpc = "error"
    /\ werr.kind = "SuperDARNFieldMissing"
    /\ werr.fields = {wdt}
    /\ KeySet(dmap_records[werr.rec_num + 1]) = {stid, nvec, pwr, fitN}

\* C5, amended: a record with a field outside every group that the writer
\* reaches (every record before it passed the field checks and was
\* encoded) makes the writer raise SuperDARNFieldExtra with that record's
\* index and exactly its fields outside the groups, whatever is missing or
\* mistyped in that record.
C5_ExtraFieldsOfReachedRecord ==
    \A k \in 1..Len(dmap_records) :
        (Validated(k) /\ Extra(dmap_records[k]) # {})
        => Raised("SuperDARNFieldExtra", k, Extra(dmap_records[k]))

\* the second record has an extra field, a group held in part and a
\* mistyped field, and SuperDARNFieldExtra is raised for index 1
C5_Witness ==
    /\ Len(dmap_records) = 2
    /\ wpc = "error"
    /\ werr.kind = "SuperDARNFieldExtra"
    /\ werr.rec_num = 1
    /\ Partial(dmap_records[2]) # {}
    /\ Mismatched(dmap_records[2]) # {}

\* C5, as the specification states it: once the writer has raised, the
\* exception is SuperDARNFieldExtra for the first record of the list that
\* has an extra field.
C5_ExtraFieldsOfFirstRecord ==
    LET extras == {k \in 1..Len(dmap_records) : Extra(dmap_records[k]) # {}}
    IN  (wpc = "error" /\ extras # {}) =>
            LET first == CHOOSE k \in extras : \A j \in extras : k <= j
            IN  Raised("SuperDARNFieldExtra", first, Extra(dmap_records[first]))

\* C6: a record with no extra field and no group held in part that the
\* writer reaches is rejected with SuperDARNDataFormatError, carrying its
\* index and exactly the mistyped fields, when some field's format differs
\* from the schema's; when none differs no such exception is raised for it.
C6_TypeMismatch ==
    \A k \in 1..Len(dmap_records) :
        (Validated(k) /\ Extra(dmap_records[k]) = {} /\ Partial(dmap_records[k]) = {}) =>
            IF Mismatched(dmap_records[k]) # {}
            THEN Raised("SuperDARNDataFormatError", k, Mismatched(dmap_records[k]))
            ELSE ~RaisedKind("SuperDARNDataFormatError", k)

\* a complete grid record whose scalar nvec and array pwr are mistyped is
\* rejected for exactly these two
C6_Witness ==
    /\ dmap_file_fmt = "grid"
    /\ wpc = "error"
    /\ werr.kind = "SuperDARNDataFormatError"
    /\ werr.fields = {nvec, pwr}
    /\ KeySet(dmap_records[werr.rec_num + 1]) = {stid, nvec, pwr, wdt}

\* C8, as the specification states it: a record with an array other than
\* slist that has a zero-length dimension is rejected by the schema-checked
\* writer and adds no bytes; a record that passes the field checks and
\* whose only such array is slist is accepted.  The code does not do the
\* former: see C8_Diverges.
C8_EncodeRejectsZeroDim ==
    \A k \in 1..Len(dmap_records) :
        /\ (Validated(k) /\ ZeroDimArrays(dmap_records[k]) \ {slist} # {})
           => /\ wpc = "error"
              /\ werr.rec_num = k - 1
              /\ Len(dmap_bytearr) = RecordOffset(dmap_records, k)
        /\ (/\ Validated(k)
            /\ ZeroDimArrays(dmap_records[k]) = {slist}
            /\ field_checks(Groups, dmap_records[k]).kind = "ok")
           => rec_num >= k

\* an iqdat record whose array tsc has shape [0] is written
C8_Diverges ==
    /\ dmap_file_fmt = "iqdat"
    /\ wpc = "done"
    /\ Len(dmap_records) = 1
    /\ ZeroDimArrays(dmap_records[1]) = {tsc}
    /\ file = dmap_record_to_bytes(dmap_records[1]).bytes
    /\ Len(file) > 16

(***************************************************************************)
(* Properties of the reader over what a writer wrote (Spec)                *)
(***************************************************************************)
\* read_records has returned or raised
ReadDone == method = "read" /\ rpc \in {"returned", "raised"}

\* test_initial_data_integrity has returned or raised
PrescanDone == method = "prescan" /\ rpc \in {"returned", "raised"}

\* a record with a scalar, an array and no zero-length dimension outside
\* slist: the counts and shapes the reader does not refuse
Readable(record) ==
    /\ \E i \in 1..Len(record) : record[i].kind = "scalar"
    /\ \E i \in 1..Len(record) : record[i].kind = "array"
    /\ ZeroDimArrays(record) \subseteq {slist}

\* C1, as the specification states it: read_records over the bytes a
\* writer produced for a list of records returns a list equal to it (taken
\* here for lists of readable records only).  The code does not do this:
\* see C1_Diverges.
C1_RoundTrip ==
    (/\ ReadDone
     /\ tamper.kind = "none"
     /\ \A k \in 1..Len(dmap_records) : Readable(dmap_records[k]))
    => (rpc = "returned" /\ records = dmap_records)

\* a record with an array of shape [1, 2], written in raw mode, is read
\* back with shape [2, 1] and is otherwise the same
C1_Diverges ==
    /\ ReadDone
    /\ tamper.kind = "none"
    /\ dmap_file_fmt = "dmap"
    /\ rpc = "returned"
    /\ Len(dmap_records) = 1
    /\ Len(records) = 1
    /\ dmap_records[1][2].shape = <<1, 2>>
    /\ records[1][2].shape = <<2, 1>>
    /\ records[1][1] = dmap_records[1][1]
    /\ records[1][2].value = dmap_records[1][2].value

\* C2, amended: when the last k >= 1 bytes of a buffer that read_records
\* decodes are cut off and bytes remain, read_records returns the records
\* before the cut if the cut falls on the end of a record, and otherwise
\* raises MismatchByteError or CursorError.
C2_TruncationDetectedOffBoundary ==
    (ReadDone /\ tamper.kind = "trunc" /\ read_records(file).err = "ok") =>
        IF Len(rd_bytearr) \in RecordEnds(dmap_records)
        THEN /\ rpc = "returned"
             /\ records = read_records(rd_bytearr).records
             /\ Len(records) < Len(dmap_records)
             /\ records = Take(read_records(file).records, Len(records))
        ELSE rpc = "raised" /\ rerr \in {"MismatchByteError", "CursorError"}

\* a buffer of two records cut inside its second record raises
\* MismatchByteError with the first record read
C2_Witness ==
    /\ ReadDone
    /\ tamper.kind = "trunc"
    /\ read_records(file).err = "ok"
    /\ Len(dmap_records) = 2
    /\ Len(records) = 1
    /\ rpc = "raised"
    /\ rerr = "MismatchByteError"

\* C2, as the specification states it: read_records on the cut buffer
\* always raises MismatchByteError or CursorError.
C2_TruncationAlwaysDetected ==
    (ReadDone /\ tamper.kind = "trunc" /\ read_records(file).err = "ok") =>
        (rpc = "raised" /\ rerr \in {"MismatchByteError", "CursorError"})

\* the dimension sizes dmap_array_to_bytes puts on the wire, in wire order
WireShape(array) ==
    LET bs == dmap_array_to_bytes(array).bytes
        off == Len(array.name) + 6
    IN  [i \in 1..array.dimension |->
            struct_unpack("i", SubSeq(bs, off + 4 * (i - 1) + 1, off + 4 * i))]

\* the arrays of the records handed to the writer
WrittenArrays ==
    {f \in UNION {Range(dmap_records[k]) : k \in 1..Len(dmap_records)} : f.kind = "array"}

\* C7, as the specification states it: read_records over a buffer whose
\* next record holds an array other than slist with a zero-length
\* dimension raises DmapDataError, and a record whose only array with a
\* zero-length dimension is slist is decoded, slist with an empty value.
\* The code does not do the former: see C7_Diverges.
C7_DecodeRejectsZeroDim ==
    (ReadDone /\ tamper.kind = "none") =>
        /\ \A k \in 1..Len(records) :
              /\ ZeroDimArrays(dmap_records[k]) \subseteq {slist}
              /\ \A j \in 1..Len(records[k]) :
                    records[k][j].name \in ZeroDimArrays(dmap_records[k])
                    => records[k][j].value = <<>>
        /\ (rpc = "raised" /\ Len(records) < Len(dmap_records)) =>
              IF ZeroDimArrays(dmap_records[Len(records) + 1]) \ {slist} # {}
              THEN rerr = "DmapDataError"
              ELSE ZeroDimArrays(dmap_records[Len(records) + 1]) = {}

\* a record whose array "x" has shape [0] makes read_records raise KeyError
C7_Diverges ==
    /\ ReadDone
    /\ tamper.kind = "none"
    /\ rpc = "raised"
    /\ rerr = "KeyError"
    /\ records = <<>>
    /\ ZeroDimArrays(dmap_records[1]) = {xtra}

C10_ShapeReversedBothWays ==
    (ReadDone /\ tamper.kind = "none") =>
        /\ \A a \in WrittenArrays : WireShape(a) = Reverse(a.shape)
        /\ \A k \in 1..Len(records) : \A j \in 1..Len(records[k]) :
              records[k][j].kind = "array" =>
                  /\ records[k][j].shape = dmap_records[k][j].shape
                  /\ records[k][j].shape = Reverse(WireShape(dmap_records[k][j]))

\* the array nvec of shape [1, 2] is on the wire as 1, 2 and is read back
\* with shape [2, 1]
C10_Diverges ==
    /\ ReadDone
    /\ tamper.kind = "none"
    /\ rpc = "returned"
    /\ \E k \in 1..Len(records) : \E j \in 1..Len(records[k]) :
          /\ dmap_records[k][j].kind = "array"
          /\ dmap_records[k][j].shape = <<1, 2>>
          /\ WireShape(dmap_records[k][j]) = <<1, 2>>
          /\ records[k][j].shape = <<2, 1>>

(***************************************************************************)
(* The encoder under either kind of format (SpecEncode): the records of    *)
(* the codec, a record whose array precedes its scalar, and a record       *)
(* whose value struct.pack refuses                                         *)
(***************************************************************************)
EncoderRecords ==
    CodecRecords \cup
    { <<DmapArray(nvec, <<5, 6>>, INT, "i", 1, <<2>>),
        DmapScalar(stid, <<7>>, SHORT, "h")>>,
      <<DmapScalar(stid, <<40000>>, SHORT, "h"),
        DmapArray(data, <<F32[1]>>, FLOAT, "f", 1, <<1>>)>> }

EncoderInputs ==
    {<<fmt, recs>> : fmt \in SchemaFormats \cup RawFormats,
                     recs \in SeqsUpTo(EncoderRecords, MaxRecs)}

InitEncode == InitWith(EncoderInputs)

NextEncode ==
    \/ write_begin
    \/ superDARN_file_structure_to_bytes
    \/ dmap_records_to_bytes
    \/ write_file

SpecEncode == InitEncode /\ [][NextEncode]_vars

\* the block sizes the headers of at most n successive records of b
\* declare, the first header at offset c
RECURSIVE DeclaredSizes(_, _, _)
DeclaredSizes(b, c, n) ==
    IF n = 0 \/ c + 8 > Len(b) THEN <<>>
    ELSE LET block_size == struct_unpack("i", SubSeq(b, c + 5, c + 8))
         IN  IF block_size <= 0 THEN <<block_size>>
             ELSE <<block_size>> \o DeclaredSizes(b, c + block_size, n - 1)

\* the four integers of the header at offset c of b
HeaderAt(b, c) ==
    [marker |-> struct_unpack("i", SubSeq(b, c + 1, c + 4)),
     block_size |-> struct_unpack("i", SubSeq(b, c + 5, c + 8)),
     num_scalars |-> struct_unpack("i", SubSeq(b, c + 9, c + 12)),
     num_arrays |-> struct_unpack("i", SubSeq(b, c + 13, c + 16))]

\* the bytes of the fields of a record, in its key order
Payload(record) == Concat([i \in 1..Len(record) |-> FieldBytes(record[i]).bytes])

\* the writer has raised one of the three exceptions of the field checks
SchemaError ==
    wpc = "error" /\ werr.kind \in {"SuperDARNFieldExtra", "SuperDARNFieldMissing",
                                    "SuperDARNDataFormatError"}

C15_RecordLayout ==
    LET sizes == DeclaredSizes(dmap_bytearr, 0, rec_num + 1)
    IN  /\ Len(sizes) = rec_num
        /\ Sum(sizes) = Len(dmap_bytearr)
        /\ \A k \in 1..rec_num :
              LET h == HeaderAt(dmap_bytearr, Sum(Take(sizes, k - 1)))
                  record == dmap_records[k]
              IN  /\ h.marker = 65537
                  /\ h.block_size = Len(Payload(record)) + 16
                  /\ h.num_scalars =
                        Cardinality({i \in 1..Len(record) : record[i].kind = "scalar"})
                  /\ h.num_arrays =
                        Cardinality({i \in 1..Len(record) : record[i].kind = "array"})

\* two records are encoded, the first with one scalar and two arrays in 61
\* bytes, the second with one scalar and no array in 24 bytes
C15_Witness ==
    /\ rec_num = 2
    /\ KeySet(dmap_records[1]) = {stid, slist, pwr0}
    /\ KeySet(dmap_records[2]) = {stid}
    /\ HeaderAt(dmap_bytearr, 0) =
          [marker |-> 65537, block_size |-> 61, num_scalars |-> 1, num_arrays |-> 2]
    /\ HeaderAt(dmap_bytearr, 61) =
          [marker |-> 65537, block_size |-> 24, num_scalars |-> 1, num_arrays |-> 0]
    /\ Len(dmap_bytearr) = 85

\* C16: the bytes the writer holds are the encodings of the records passed
\* so far in list order, and after the 16 bytes of its header each record
\* is the encodings of its fields in key order, scalars and arrays as they
\* come; the file is these bytes.
C16_OrderPreserved ==
    /\ dmap_bytearr =
          Concat([k \in 1..rec_num |->
                     SubSeq(dmap_bytearr, RecordOffset(dmap_records, k) + 1,
                            RecordOffset(dmap_records, k) + 16)
                     \o Payload(dmap_records[k])])
    /\ \A k \in 1..rec_num : \A j \in 1..Len(dmap_records[k]) :
          LET at == RecordOffset(dmap_records, k) + 16
                    + Len(Payload(Take(dmap_records[k], j - 1)))
              bytes == FieldBytes(dmap_records[k][j]).bytes
          IN  SubSeq(dmap_bytearr, at + 1, at + Len(bytes)) = bytes
    /\ wpc = "done" => file = dmap_bytearr

\* a record whose array nvec precedes its scalar stid is written second,
\* after a record with stid first, and nvec's bytes come before stid's
C16_Witness ==
    /\ wpc = "done"
    /\ Len(dmap_records) = 2
    /\ dmap_records[1][1].kind = "scalar"
    /\ dmap_records[2][1].kind = "array"
    /\ dmap_records[2][2].kind = "scalar"
    /\ SubSeq(file, RecordOffset(dmap_records, 2) + 17,
              RecordOffset(dmap_records, 2) + 16 + Len(dmap_array_to_bytes(dmap_records[2][1]).bytes))
          = dmap_array_to_bytes(dmap_records[2][1]).bytes

(***************************************************************************)
(* The file of a schema-checked write (SpecWrite)                          *)
(***************************************************************************)
\* the records of the list that fail a field check under the format
FailingRecords ==
    {k \in 1..Len(dmap_records) :
        field_checks(file_struct_list(dmap_file_fmt), dmap_records[k]).kind # "ok"}

\* C13: in a schema-checked write, when some record of the list fails the
\* extra-field, missing-field or type check, the file holds no byte in any
\* state of the call, and the call ends raising with the file still empty
\* unless an earlier record stopped the encoder.
C13_NoBytesBeforeChecks ==
    /\ FailingRecords # {} => file = <<>>
    /\ SchemaError => file = <<>> /\ werr.rec_num + 1 \in FailingRecords
    /\ file # <<>> => wpc = "done" /\ file = dmap_bytearr

\* the second record fails a check after the first was encoded: its
\* bytes are held in memory and the file is empty
C13_Witness ==
    /\ SchemaError
    /\ werr.rec_num = 1
    /\ Len(dmap_bytearr) > 16
    /\ file = <<>>

(***************************************************************************)
(* The type codes of a schema-checked write (SpecWrite)                    *)
(***************************************************************************)
\* the offset in the file of the type code of field i of record k: after
\* the records and the fields before it, the 16 bytes of the header, and
\* the name of the field with its NUL
TypeCodeOffset(k, i) ==
    RecordOffset(dmap_records, k) + 16
    + Sum([j \in 1..(i - 1) |-> Len(FieldBytes(dmap_records[k][j]).bytes)])
    + Len(dmap_records[k][i].name) + 1

\* C28 as stated: when a schema-checked write has ended, the type code in
\* the file for each field of each record is the code of the format the
\* schema declares for the name of the field, and the code of the format
\* its value bytes were packed with.
C28_TypeCodeIsSchemaType ==
    (wpc = "done" /\ dmap_file_fmt \in SchemaFormats) =>
        \A k \in 1..Len(dmap_records) : \A i \in 1..Len(dmap_records[k]) :
            /\ file[TypeCodeOffset(k, i) + 1]
                  = CodeOf(complete_dict(file_struct_list(dmap_file_fmt))[dmap_records[k][i].name])
            /\ DMAP_DATA_TYPES[file[TypeCodeOffset(k, i) + 1]][1]
                  = dmap_records[k][i].data_type_fmt

\* a record whose first field has the format of the schema and the type
\* code of another format passed the checks and was written: the type
\* code in the file is the code the field was constructed with
C28_Diverges ==
    /\ wpc = "done"
    /\ dmap_file_fmt \in SchemaFormats
    /\ Len(dmap_records) = 1
    /\ dmap_records[1] # <<>>
    /\ dmap_records[1][1].data_type_fmt
          = complete_dict(file_struct_list(dmap_file_fmt))[dmap_records[1][1].name]
    /\ file[TypeCodeOffset(1, 1) + 1] = dmap_records[1][1].data_type
    /\ file[TypeCodeOffset(1, 1) + 1] # CodeOf(dmap_records[1][1].data_type_fmt)

(***************************************************************************)
(* The reader over streams no writer produced (SpecRead): a well-formed    *)
(* record and records that depart from it in one respect, alone, before    *)
(* and after the well-formed record, and the empty stream                  *)
(***************************************************************************)
\* a record on the wire: the payload under a header that declares
\* num_scalars, num_arrays and the true size plus delta
WireRecord(delta, num_scalars, num_arrays, payload) ==
    struct_pack("i", encoding_identifier).bytes
    \o struct_pack("i", Len(payload) + 16 + delta).bytes
    \o struct_pack("i", num_scalars).bytes
    \o struct_pack("i", num_arrays).bytes
    \o payload

WireScalar == dmap_scalar_to_bytes(DmapScalar(stid, <<7>>, SHORT, "h")).bytes

WireArray == dmap_array_to_bytes(DmapArray(nvec, <<5, 6>>, INT, "i", 1, <<2>>)).bytes

\* the scalar stid and the array nvec
GoodPayload == WireScalar \o WireArray

GoodWire == WireRecord(0, 1, 1, GoodPayload)

\* the counts a header may declare over GoodPayload
WireCounts ==
    {<<0, 1>>, <<1, 0>>, <<0 - 1, 1>>, <<1, 0 - 1>>, <<0, 0>>, <<0, 0 - 1>>,
     <<100, 1>>, <<1, 100>>, <<2, 1>>, <<1, 2>>}

\* an array on the wire, its shape in the order given
WireArrayOf(name, type, shape, values) ==
    name \o <<0, type>> \o struct_pack("i", Len(shape)).bytes
    \o Concat([i \in 1..Len(shape) |-> struct_pack("i", shape[i]).bytes])
    \o values

\* a record that declares block_size over the payload, one scalar and one
\* array
WireSized(block_size, payload) ==
    WireRecord(block_size - (Len(payload) + 16), 1, 1, payload)

WireVariants ==
    { GoodWire,
      \* block_size is zero, negative
      WireSized(0, GoodPayload),
      WireSized(0 - 1, GoodPayload),
      \* the name of the scalar has no NUL
      WireRecord(0, 1, 1, stid),
      \* block_size is 2: an array of as many dimensions, an array with a
      \* shape entry as large
      WireSized(2, WireScalar \o WireArrayOf(nvec, UCHAR, <<1, 1>>, <<9>>)),
      WireSized(2, WireScalar \o WireArrayOf(nvec, UCHAR, <<2>>, <<9, 9>>)),
      \* block_size is 2: an array of three dimensions, of none
      WireSized(2, WireScalar \o WireArrayOf(nvec, UCHAR, <<1, 1, 1>>, <<9>>)),
      WireSized(2, WireScalar \o WireArrayOf(nvec, UCHAR, <<>>, <<>>)),
      \* block_size is 3: a shape of product 4, an element width of 4
      WireSized(3, WireScalar \o WireArrayOf(nvec, UCHAR, <<2, 2>>, <<9, 9, 9, 9>>)),
      WireSized(3, WireScalar \o WireArrayOf(nvec, INT, <<1>>, <<5, 0, 0, 0>>)),
      \* an slist of negative shape, under the size of its bytes and under
      \* the size the cursor ends at
      WireRecord(0, 1, 1, WireScalar \o WireArrayOf(slist, SHORT, <<0 - 1>>, <<>>)),
      WireRecord(0 - 2, 1, 1, WireScalar \o WireArrayOf(slist, SHORT, <<0 - 1>>, <<>>)),
      \* two scalars
      WireRecord(0, 2, 1,
                 dmap_scalar_to_bytes(DmapScalar(note, <<3>>, INT, "i")).bytes
                 \o GoodPayload),
      \* the array bears the name of the scalar
      WireRecord(0, 1, 1,
                 WireScalar
                 \o dmap_array_to_bytes(DmapArray(stid, <<5, 6>>, INT, "i", 1, <<2>>)).bytes),
      \* the scalar has the type code 0, with bytes after it and without
      WireRecord(0, 1, 1, stid \o <<0, DMAP, 7, 0>> \o WireArray),
      WireRecord(0, 1, 1, stid \o <<0, DMAP>>),
      \* a byte follows the fields inside the record
      WireRecord(0, 1, 1, GoodPayload \o <<0>>),
      \* the declared size is one more, one less than the bytes
      WireRecord(1, 1, 1, GoodPayload),
      WireRecord(0 - 1, 1, 1, GoodPayload) }
    \cup {WireRecord(0, n[1], n[2], GoodPayload) : n \in WireCounts}

WireInputs ==
    {<<>>} \cup WireVariants
           \cup {GoodWire \o v : v \in WireVariants}
           \cup {v \o GoodWire : v \in WireVariants}

InitRead ==
    /\ file \in WireInputs
    /\ dmap_file_fmt = "stream"
    /\ dmap_records = <<>>
    /\ dmap_bytearr = <<>>
    /\ rec_num = 0
    /\ wpc = "absent"
    /\ werr = NoError
    /\ write_calls = 0
    /\ tamper = NoTamper
    /\ rd_bytearr = <<>>
    /\ cursor = 0
    /\ records = <<>>
    /\ total_block_size = 0
    /\ method = "none"
    /\ rpc = "none"
    /\ rerr = "ok"
    /\ calls = OneCall

NextRead ==
    \/ DmapRead_init
    \/ prescan_begin
    \/ prescan_step
    \/ prescan_end
    \/ read_records_begin
    \/ read_records_step
    \/ read_records_end

SpecRead == InitRead /\ [][NextRead]_vars

(***************************************************************************)
(* Properties of the reader over any stream (SpecRead)                     *)
(***************************************************************************)
\* the offset at which the k-th record of the stream starts, going by the
\* block sizes the records before it declare
WireOffset(k) == Sum(DeclaredSizes(rd_bytearr, 0, k - 1))

\* the name that starts at offset c of the stream
NameAt(c) == SubSeq(rd_bytearr, c + 1, FirstNul(rd_bytearr, c))

\* C17: DmapRead over a stream of length 0 raises EmptyFileError with the
\* cursor at 0, nothing decoded and no method run, and a reader on which
\* the prescan or read_records runs always holds at least one byte.
C17_EmptyStreamRejected ==
    /\ rpc = "failed" =>
          /\ rerr = "EmptyFileError"
          /\ Tampered(tamper, file, dmap_records) = <<>>
          /\ cursor = 0
          /\ records = <<>>
          /\ total_block_size = 0
          /\ method = "none"
    /\ rpc \notin {"none", "failed"} =>
          /\ rd_bytearr = Tampered(tamper, file, dmap_records)
          /\ Len(rd_bytearr) > 0
    /\ method # "none" => Len(rd_bytearr) > 0

\* the empty stream was handed to DmapRead
C17_Witness ==
    /\ file = <<>>
    /\ tamper = NoTamper
    /\ rpc = "failed"
    /\ rerr = "EmptyFileError"
    /\ cursor = 0

\* the records read_records holds are those of the stream in wire order,
\* and when it returns the cursor is the length of the buffer and the
\* block sizes of the returned records sum to that length
ReturnsWholeBuffer ==
    /\ \A k \in 1..Len(records) :
          /\ Len(DeclaredSizes(rd_bytearr, 0, k)) = k
          /\ records[k] = read_record(rd_bytearr, WireOffset(k)).record
          /\ records[k][1].name = NameAt(WireOffset(k) + 16)
    /\ rpc = "returned" =>
          /\ cursor = Len(rd_bytearr)
          /\ Sum(DeclaredSizes(rd_bytearr, 0, Len(records))) = Len(rd_bytearr)
          /\ Len(records) > 0

ReturnedTwoRecords ==
    /\ method = "read"
    /\ rpc = "returned"
    /\ Len(records) = 2
    /\ Keys(records[1]) = <<note, stid, nvec>>
    /\ Keys(records[2]) = <<stid, nvec>>
    /\ cursor = Len(rd_bytearr)

\* the offset at which the record read_records is to read next starts
NextStart == WireOffset(Len(records) + 1)

\* the header at offset c is whole and its block_size passes the checks of
\* read_record: positive and no more than the bytes from c to the end
SizeValid(c) ==
    /\ Len(rd_bytearr) - c >= 16
    /\ HeaderAt(rd_bytearr, c).block_size > 0
    /\ HeaderAt(rd_bytearr, c).block_size <= Len(rd_bytearr) - c

\* the counts of the header at offset c pass the checks of read_record too
CountsValid(c) ==
    /\ SizeValid(c)
    /\ HeaderAt(rd_bytearr, c).num_scalars > 0
    /\ HeaderAt(rd_bytearr, c).num_arrays > 0
    /\ HeaderAt(rd_bytearr, c).num_scalars + HeaderAt(rd_bytearr, c).num_arrays
          <= HeaderAt(rd_bytearr, c).block_size

\* the two loops of read_record over the fields of the record at offset c
FieldsRead(c) ==
    ReadArrays(rd_bytearr, HeaderAt(rd_bytearr, c).num_arrays,
               ReadScalars(rd_bytearr, HeaderAt(rd_bytearr, c).num_scalars,
                           [err |-> "ok", cursor |-> c + 16, record |-> <<>>]),
               HeaderAt(rd_bytearr, c).block_size)

\* C19: while read_records runs and when it returns, the cursor has moved
\* over each record it holds by exactly the block_size the record
\* declares, so a record read over any other number of bytes is never
\* held; and when read_records has raised at a record whose header passes
\* the checks and whose fields are all read over fewer or more bytes than
\* it declares, the error is CursorError.
C19_RecordLengthExact ==
    method = "read" =>
        /\ rpc \in {"running", "returned"} =>
              /\ Len(DeclaredSizes(rd_bytearr, 0, Len(records))) = Len(records)
              /\ cursor = Sum(DeclaredSizes(rd_bytearr, 0, Len(records)))
        /\ \A k \in 1..Len(records) :
              /\ CountsValid(WireOffset(k))
              /\ FieldsRead(WireOffset(k)).err = "ok"
              /\ FieldsRead(WireOffset(k)).cursor - WireOffset(k) =
                    HeaderAt(rd_bytearr, WireOffset(k)).block_size
        /\ ( /\ rpc = "raised"
             /\ CountsValid(NextStart)
             /\ FieldsRead(NextStart).err = "ok"
             /\ FieldsRead(NextStart).cursor - NextStart
                   # HeaderAt(rd_bytearr, NextStart).block_size )
           => /\ rerr = "CursorError"
              /\ cursor = FieldsRead(NextStart).cursor

\* a record whose fields end one byte before its declared size, the bytes
\* being there: CursorError, the cursor one short of the end
C19_Witness ==
    /\ method = "read"
    /\ tamper = NoTamper
    /\ rpc = "raised"
    /\ rerr = "CursorError"
    /\ records = <<>>
    /\ CountsValid(0)
    /\ HeaderAt(rd_bytearr, 0).block_size = Len(rd_bytearr)
    /\ FieldsRead(0).err = "ok"
    /\ cursor = Len(rd_bytearr) - 1

\* C20: every record read_records holds declares at least one scalar and
\* one array; and when read_records has raised at a record whose header
\* is whole and whose block_size passes its checks, the error is
\* ZeroByteError or NegativeByteError when num_scalars, or else
\* num_arrays, is zero or negative, and MismatchByteError when both are
\* positive and their sum exceeds block_size.
C20_CountsPositive ==
    method = "read" =>
        /\ \A k \in 1..Len(records) :
              /\ HeaderAt(rd_bytearr, WireOffset(k)).num_scalars > 0
              /\ HeaderAt(rd_bytearr, WireOffset(k)).num_arrays > 0
        /\ ( /\ rpc = "raised"
             /\ SizeValid(NextStart)
             /\ ~CountsValid(NextStart) )
           => LET h == HeaderAt(rd_bytearr, NextStart)
              IN  /\ cursor = NextStart + 16
                  /\ rerr = IF h.num_scalars = 0 THEN "ZeroByteError"
                            ELSE IF h.num_scalars < 0 THEN "NegativeByteError"
                            ELSE IF h.num_arrays = 0 THEN "ZeroByteError"
                            ELSE IF h.num_arrays < 0 THEN "NegativeByteError"
                            ELSE "MismatchByteError"

\* after a well-formed record, a record that declares one scalar and no
\* array: ZeroByteError
C20_Witness ==
    /\ method = "read"
    /\ rpc = "raised"
    /\ rerr = "ZeroByteError"
    /\ Len(records) = 1
    /\ SizeValid(NextStart)
    /\ HeaderAt(rd_bytearr, NextStart).num_scalars = 1
    /\ HeaderAt(rd_bytearr, NextStart).num_arrays = 0

\* the names of the fields of a record as read_scalar and read_array read
\* them from offset c on: num_scalars scalars, then num_arrays arrays
RECURSIVE WireNames(_, _, _, _)
WireNames(c, num_scalars, num_arrays, block_size) ==
    IF num_scalars > 0
    THEN IF read_scalar(rd_bytearr, c).err # "ok" THEN <<>>
         ELSE <<read_scalar(rd_bytearr, c).field.name>>
              \o WireNames(read_scalar(rd_bytearr, c).cursor,
                           num_scalars - 1, num_arrays, block_size)
    ELSE IF num_arrays > 0
    THEN IF read_array(rd_bytearr, c, block_size).err # "ok" THEN <<>>
         ELSE <<read_array(rd_bytearr, c, block_size).field.name>>
              \o WireNames(read_array(rd_bytearr, c, block_size).cursor,
                           0, num_arrays - 1, block_size)
    ELSE <<>>

\* the names read from the wire for the k-th record of the stream
WireNamesOf(k) ==
    WireNames(WireOffset(k) + 16,
              HeaderAt(rd_bytearr, WireOffset(k)).num_scalars,
              HeaderAt(rd_bytearr, WireOffset(k)).num_arrays,
              HeaderAt(rd_bytearr, WireOffset(k)).block_size)

\* the names of a sequence are pairwise distinct
Distinct(names) ==
    \A i, j \in 1..Len(names) : names[i] = names[j] => i = j

\* C11 as stated: the keys of every record read_records holds are the
\* names read from the wire for it, in read order, and the record holds
\* num_scalars + num_arrays fields.
C11_KeysMirrorWire ==
    method = "read" =>
        \A k \in 1..Len(records) :
            /\ Keys(records[k]) = WireNamesOf(k)
            /\ Len(records[k]) = HeaderAt(rd_bytearr, WireOffset(k)).num_scalars
                                 + HeaderAt(rd_bytearr, WireOffset(k)).num_arrays

\* the part of C11 that holds: the keys of a record mirror the names read
\* from the wire whenever those names are pairwise distinct
KeysMirrorDistinctWire ==
    method = "read" =>
        \A k \in 1..Len(records) :
            Distinct(WireNamesOf(k)) =>
                /\ Keys(records[k]) = WireNamesOf(k)
                /\ Len(records[k]) = HeaderAt(rd_bytearr, WireOffset(k)).num_scalars
                                     + HeaderAt(rd_bytearr, WireOffset(k)).num_arrays

\* a record whose array bears the name of its scalar was read: it holds
\* one field for the two on the wire, the array in the place of the scalar
C11_Diverges ==
    /\ method = "read"
    /\ rpc = "returned"
    /\ Len(records) = 1
    /\ HeaderAt(rd_bytearr, 0).num_scalars = 1
    /\ HeaderAt(rd_bytearr, 0).num_arrays = 1
    /\ WireNamesOf(1) = <<stid, stid>>
    /\ Len(records[1]) = 1
    /\ records[1][1].kind = "array"

\* the first scalar of the record at offset c, a record whose header
\* passes the checks of read_record, has the type code 0
ReservedFirstScalar(c) ==
    /\ CountsValid(c)
    /\ FirstNul(rd_bytearr, c + 16) >= 0
    /\ FirstNul(rd_bytearr, c + 16) + 1 < Len(rd_bytearr)
    /\ rd_bytearr[FirstNul(rd_bytearr, c + 16) + 2] = DMAP

\* C12 as stated: a record whose first scalar has the type code 0 is
\* refused with DmapDataError, the cursor left after the type code, and no
\* scalar read_records holds has the data type 0.
C12_ReservedTypeRejected ==
    method = "read" =>
        /\ \A k \in 1..Len(records) : \A i \in 1..Len(records[k]) :
              records[k][i].kind = "scalar" => records[k][i].data_type # DMAP
        /\ (rpc = "raised" /\ ReservedFirstScalar(NextStart)) =>
              /\ rerr = "DmapDataError"
              /\ cursor = FirstNul(rd_bytearr, NextStart + 16) + 2

\* the scalar of the record has the type code 0 and bytes follow it:
\* IndexError, where DmapDataError is promised
C12_Diverges ==
    /\ method = "read"
    /\ tamper = NoTamper
    /\ rpc = "raised"
    /\ records = <<>>
    /\ ReservedFirstScalar(0)
    /\ cursor < Len(rd_bytearr)
    /\ rerr = "IndexError"

\* the block_size the header at offset c declares
BlockSizeAt(c) == struct_unpack("i", SubSeq(rd_bytearr, c + 5, c + 8))

\* C21: every record read_records holds declares a block_size above zero
\* and no more than the bytes from its start to the end of the buffer; and
\* when read_records has raised at a record whose block_size could be
\* read, the error is ZeroByteError for a block_size of zero,
\* NegativeByteError for a negative one and MismatchByteError for one
\* above the bytes from the start of the record to the end of the buffer,
\* with the cursor after block_size, before num_scalars.
C21_BlockSizeCheckedFirst ==
    method = "read" =>
        /\ \A k \in 1..Len(records) :
              /\ BlockSizeAt(WireOffset(k)) > 0
              /\ WireOffset(k) + BlockSizeAt(WireOffset(k)) <= Len(rd_bytearr)
        /\ ( /\ rpc = "raised"
             /\ Len(rd_bytearr) - NextStart >= 8
             /\ ~ ( /\ BlockSizeAt(NextStart) > 0
                    /\ BlockSizeAt(NextStart) <= Len(rd_bytearr) - NextStart ) )
           => /\ cursor = NextStart + 8
              /\ rerr = IF BlockSizeAt(NextStart) = 0 THEN "ZeroByteError"
                        ELSE IF BlockSizeAt(NextStart) < 0 THEN "NegativeByteError"
                        ELSE "MismatchByteError"

\* after a well-formed record, a record that declares the block_size -1:
\* NegativeByteError, the cursor 8 bytes into the record
C21_Witness ==
    /\ method = "read"
    /\ tamper = NoTamper
    /\ rpc = "raised"
    /\ rerr = "NegativeByteError"
    /\ Len(records) = 1
    /\ HeaderAt(rd_bytearr, NextStart).block_size = 0 - 1
    /\ Len(rd_bytearr) - NextStart > 16
    /\ cursor = NextStart + 8

\* the name of the first scalar of the record read_records raised at has
\* no NUL up to the end of the buffer: read_data('s', 1) was called at a
\* cursor inside the buffer with no NUL at or after it
UnterminatedName ==
    /\ method = "read"
    /\ rpc = "raised"
    /\ CountsValid(NextStart)
    /\ NextStart + 16 < Len(rd_bytearr)
    /\ FirstNul(rd_bytearr, NextStart + 16) < 0

\* C23 as stated: the name of the first field of every record held is the
\* bytes from the cursor to the first NUL, the type code being read right
\* after that NUL; and a name with no NUL up to the end of the buffer
\* fails with CursorError or MismatchByteError.
C23_StringReadBounded ==
    /\ method = "read" =>
          \A k \in 1..Len(records) :
              /\ FirstNul(rd_bytearr, WireOffset(k) + 16) >= WireOffset(k) + 16
              /\ records[k][1].name = NameAt(WireOffset(k) + 16)
              /\ records[k][1].data_type
                    = rd_bytearr[FirstNul(rd_bytearr, WireOffset(k) + 16) + 2]
    /\ UnterminatedName => rerr \in {"CursorError", "MismatchByteError"}

\* a record whose scalar name runs to the end of the buffer without a NUL:
\* IndexError, the bytearray having been indexed at the length of the
\* buffer
C23_Diverges ==
    /\ UnterminatedName
    /\ tamper = NoTamper
    /\ rerr = "IndexError"
    /\ cursor = NextStart + 16

\* C30: at the head of every iteration of the loop of the prescan begun
\* on a fresh reader the cursor is total_block_size, which is at most the
\* length of the buffer, and when the loop has ended without an error
\* total_block_size is the length of the buffer.
C30_PrescanLoopInvariant ==
    (method = "prescan" /\ calls.made = <<"prescan">>) =>
        /\ rpc = "running" =>
              /\ cursor = total_block_size
              /\ total_block_size <= Len(rd_bytearr)
        /\ rpc = "returned" => total_block_size = Len(rd_bytearr)

\* the prescan is at the head of its second iteration, one block passed
\* and bytes left
C30_Witness ==
    /\ method = "prescan"
    /\ calls.made = <<"prescan">>
    /\ rpc = "running"
    /\ cursor = total_block_size
    /\ cursor > 0
    /\ cursor < Len(rd_bytearr)

\* the scalars of the record at offset c, as read_record reads them
ScalarsRead(c) ==
    ReadScalars(rd_bytearr, HeaderAt(rd_bytearr, c).num_scalars,
                [err |-> "ok", cursor |-> c + 16, record |-> <<>>])

\* the calls of read_array that the loop over k arrays makes from the
\* cursor c on: the cursor each starts at, the record size it is given and
\* what it returns, up to and with the first that raises
RECURSIVE ArrayReads(_, _, _)
ArrayReadsNext(k, c, block_size, res) ==
    <<[at |-> c, block_size |-> block_size, res |-> res]>>
    \o IF res.err # "ok" THEN <<>> ELSE ArrayReads(k - 1, res.cursor, block_size)

ArrayReads(k, c, block_size) ==
    IF k <= 0 THEN <<>>
    ELSE ArrayReadsNext(k, c, block_size, read_array(rd_bytearr, c, block_size))

\* the calls of read_array made for the record at offset c
ArrayReadsAt(c) ==
    IF CountsValid(c) /\ ScalarsRead(c).err = "ok"
    THEN ArrayReads(HeaderAt(rd_bytearr, c).num_arrays, ScalarsRead(c).cursor,
                    HeaderAt(rd_bytearr, c).block_size)
    ELSE <<>>

\* the calls of read_array read_records has made so far: those of the
\* records it holds and, once it raised, those of the record it raised at
ArrayReadsMade ==
    IF method # "read" THEN <<>>
    ELSE Concat([k \in 1..(Len(records) + IF rpc = "raised" THEN 1 ELSE 0) |->
                    ArrayReadsAt(WireOffset(k))])

\* the 4 bytes of the dimension of the array that starts at cursor c, read
\* after its name and its type code
ArrayDimensionAt(c) ==
    read_data(rd_bytearr,
              read_data(rd_bytearr, read_data(rd_bytearr, c, "s", 1).cursor, "c", 1).cursor,
              "i", 4)

\* the name, the type code and the dimension of the array at cursor c can
\* be read, and the type code is one of DMAP_DATA_TYPES
ArrayHeadRead(c) ==
    /\ read_data(rd_bytearr, c, "s", 1).err = "ok"
    /\ read_data(rd_bytearr, read_data(rd_bytearr, c, "s", 1).cursor, "c", 1).err = "ok"
    /\ check_data_type(
          read_data(rd_bytearr, read_data(rd_bytearr, c, "s", 1).cursor, "c", 1).val[1])
    /\ ArrayDimensionAt(c).err = "ok"

\* the element width of the array at cursor c
ArrayWidthAt(c) ==
    DMAP_DATA_TYPES[
        read_data(rd_bytearr, read_data(rd_bytearr, c, "s", 1).cursor, "c", 1).val[1]][2]

\* the shape entries of the array at cursor c, in wire order
ArrayShapeAt(c) ==
    ReadElements(rd_bytearr, ArrayDimensionAt(c).cursor, "i", 4, ArrayDimensionAt(c).val[1])

\* the bounds of C22 on a shape, for elements of the given width
ShapeWithin(shape, width, block_size) ==
    /\ \A i \in 1..Len(shape) : shape[i] < block_size
    /\ Product(shape) <= block_size
    /\ Product(shape) * width <= block_size

\* a call of read_array whose array breaks a bound raised, and raised with
\* the cursor where the checks are made: after the dimension for a
\* dimension out of bounds, after the shape for a shape out of bounds
FailsBeforeElements(call) ==
    ArrayHeadRead(call.at) =>
        IF ArrayDimensionAt(call.at).val[1] <= 0
           \/ ArrayDimensionAt(call.at).val[1] > call.block_size
        THEN /\ call.res.err \in {"ZeroByteError", "NegativeByteError", "MismatchByteError"}
             /\ call.res.cursor = ArrayDimensionAt(call.at).cursor
        ELSE ( /\ ArrayShapeAt(call.at).err = "ok"
               /\ ~ShapeWithin(ArrayShapeAt(call.at).val, ArrayWidthAt(call.at),
                              call.block_size) )
             => /\ call.res.err \in {"DmapDataError", "MismatchByteError", ZeroDimensionError}
                /\ call.res.cursor = ArrayShapeAt(call.at).cursor

\* C22 as stated: every array read_array returned has a dimension above 0
\* and below the block_size of its record, every shape entry below it,
\* and the product of the shape, alone and times the element width, no
\* more than it; and an array breaking a bound raised before its elements
\* were read.
C22_ArraysBounded ==
    \A k \in 1..Len(ArrayReadsMade) :
        /\ ArrayReadsMade[k].res.err = "ok" =>
              /\ ArrayReadsMade[k].res.field.dimension > 0
              /\ ArrayReadsMade[k].res.field.dimension < ArrayReadsMade[k].block_size
              /\ ShapeWithin(ArrayReadsMade[k].res.field.shape,
                             DMAP_DATA_TYPES[ArrayReadsMade[k].res.field.data_type][2],
                             ArrayReadsMade[k].block_size)
        /\ FailsBeforeElements(ArrayReadsMade[k])

\* C22: every array read_array returned has a dimension above 0 and no
\* more than the block_size of its record, every shape entry below the
\* block_size, and the product of the shape, alone and times the element
\* width, no more than it; an array breaking one of these bounds raised
\* with the cursor after its dimension or after its shape, before its
\* elements; and the arrays of the records read_records holds have a
\* dimension below the block_size.
C22_ArraysBoundedInclusive ==
    /\ \A k \in 1..Len(ArrayReadsMade) :
          /\ ArrayReadsMade[k].res.err = "ok" =>
                /\ ArrayReadsMade[k].res.field.dimension > 0
                /\ ArrayReadsMade[k].res.field.dimension <= ArrayReadsMade[k].block_size
                /\ ShapeWithin(ArrayReadsMade[k].res.field.shape,
                               DMAP_DATA_TYPES[ArrayReadsMade[k].res.field.data_type][2],
                               ArrayReadsMade[k].block_size)
          /\ FailsBeforeElements(ArrayReadsMade[k])
    /\ method = "read" =>
          \A k \in 1..Len(records) : \A i \in 1..Len(records[k]) :
              records[k][i].kind = "array" =>
                  /\ records[k][i].dimension > 0
                  /\ records[k][i].dimension < HeaderAt(rd_bytearr, WireOffset(k)).block_size

\* a record of block_size 2 whose array has dimension 2 and shape [1, 1]:
\* read_array returned it, and read_record then raised CursorError
C22_Witness ==
    /\ method = "read"
    /\ tamper = NoTamper
    /\ rpc = "raised"
    /\ rerr = "CursorError"
    /\ records = <<>>
    /\ Len(ArrayReadsMade) = 1
    /\ ArrayReadsMade[1].res.err = "ok"
    /\ ArrayReadsMade[1].block_size = 2
    /\ ArrayReadsMade[1].res.field.dimension = 2
    /\ ArrayReadsMade[1].res.field.shape = <<1, 1>>

\* C26 as stated: no step of read_records leaves the cursor below where the
\* step found it: the cursor is at or after the start of every record
\* held, every call of read_array ends at or after the cursor it started
\* at, and the read of the elements of every array returned ends at or
\* after the end of the shape, where it started.
C26_CursorNeverBackward ==
    method = "read" =>
        /\ rpc \in {"running", "returned"} => cursor >= WireOffset(Len(records) + 1)
        /\ \A k \in 1..Len(ArrayReadsMade) :
              /\ ArrayReadsMade[k].res.cursor >= ArrayReadsMade[k].at
              /\ ArrayReadsMade[k].res.err = "ok" =>
                    ArrayReadsMade[k].res.cursor >= ArrayShapeAt(ArrayReadsMade[k].at).cursor

\* a record whose SHORT array slist has the shape [-1] and which declares 2
\* bytes less than it holds: read_numerical_array left the cursor 2 bytes
\* before the end of the shape, the record was returned, and the next
\* record was read from the last 2 bytes of this one
C26_Diverges ==
    /\ method = "read"
    /\ tamper = NoTamper
    /\ rpc = "raised"
    /\ Len(records) = 1
    /\ WireOffset(2) = Len(rd_bytearr) - 2
    /\ Len(ArrayReadsMade) = 1
    /\ ArrayReadsMade[1].res.err = "ok"
    /\ ArrayReadsMade[1].res.field.name = slist
    /\ ArrayReadsMade[1].res.field.shape = <<0 - 1>>
    /\ ArrayShapeAt(ArrayReadsMade[1].at).cursor = Len(rd_bytearr)
    /\ ArrayReadsMade[1].res.cursor = Len(rd_bytearr) - 2

(***************************************************************************)
(* Termination of the reader (SpecReadLive): a method that was called      *)
(* keeps running, the interpreter taking the next pass of its loop, or     *)
(* the exit of the loop, whenever there is one to take                     *)
(***************************************************************************)
\* when a pass of the loop of read_records can be taken: the pass always
\* changes the state, rpc on an error and records otherwise, so this is
\* ENABLED <<read_records_step>>_vars
read_records_step_enabled ==
    rpc = "running" /\ method = "read" /\ cursor < Len(rd_bytearr)

\* weak fairness of the two passes and the two exits; the last conjunct
\* is WF_vars(read_records_step) with its ENABLED written out
SpecReadLive ==
    /\ InitRead
    /\ [][NextRead]_vars
    /\ WF_vars(prescan_step)
    /\ WF_vars(prescan_end)
    /\ WF_vars(read_records_end)
    /\ \/ []<>~read_records_step_enabled
       \/ []<><<read_records_step>>_vars

\* a pass of either loop that does not raise moves the cursor forward,
\* and not beyond the end of the buffer
PassAdvances ==
    ((prescan_step \/ read_records_step) /\ rpc' = "running") =>
        /\ cursor' > cursor
        /\ cursor' <= Len(rd_bytearr)

\* C29: read_records and test_initial_data_integrity, once called, return
\* or raise, every pass of their loops that does not raise having moved
\* the cursor forward within the buffer.
C29_Terminates ==
    /\ [][PassAdvances]_vars
    /\ (rpc = "running") ~> (rpc \in {"returned", "raised"})

\* the prescan returned after two passes of its loop
C29_Witness ==
    /\ method = "prescan"
    /\ rpc = "returned"
    /\ Len(DeclaredSizes(rd_bytearr, 0, 3)) = 2
    /\ total_block_size = Len(rd_bytearr)

(***************************************************************************)
(* A caller that makes several calls on one reader (SpecSession)           *)
(***************************************************************************)
MaxCalls == 2

\* a well-formed record, two records, a record that read_record refuses
\* after a well-formed one, and a record with a byte left unread, which
\* the prescan passes and read_record refuses
SessionInputs ==
    { GoodWire,
      WireRecord(0, 2, 1,
                 dmap_scalar_to_bytes(DmapScalar(note, <<3>>, INT, "i")).bytes
                 \o GoodPayload) \o GoodWire,
      GoodWire \o WireRecord(0, 1, 0, GoodPayload),
      WireRecord(0, 1, 1, GoodPayload \o <<0>>) }

InitSession ==
    /\ file \in SessionInputs
    /\ dmap_file_fmt = "stream"
    /\ dmap_records = <<>>
    /\ dmap_bytearr = <<>>
    /\ rec_num = 0
    /\ wpc = "absent"
    /\ werr = NoError
    /\ write_calls = 0
    /\ tamper = NoTamper
    /\ rd_bytearr = <<>>
    /\ cursor = 0
    /\ records = <<>>
    /\ total_block_size = 0
    /\ method = "none"
    /\ rpc = "none"
    /\ rerr = "ok"
    /\ calls = [left |-> MaxCalls, made |-> <<>>]

SpecSession == InitSession /\ [][NextRead]_vars

\* C24: test_initial_data_integrity called when the cursor is not 0
\* raises CursorError and leaves the cursor, and the records read, as they
\* were.
C24_PrescanNeedsFreshCursor ==
    [][(prescan_begin /\ cursor # 0) =>
          /\ rpc' = "raised"
          /\ rerr' = "CursorError"
          /\ cursor' = cursor
          /\ records' = records]_vars

\* the prescan was called after read_records had returned: CursorError,
\* the cursor still at the end of the buffer
C24_Witness ==
    /\ calls.made = <<"read", "prescan">>
    /\ rpc = "raised"
    /\ rerr = "CursorError"
    /\ Len(records) = 2
    /\ cursor = Len(rd_bytearr)

\* C27: over a buffer that read_records on a fresh reader decodes, the
\* prescan on a fresh reader does not raise and returns with the cursor
\* at 0 and no record read, and read_records called after it does not
\* raise and returns the records read_records returns without it.
C27_PrescanAgreesWithDecode ==
    (rpc \notin {"none", "failed"} /\ read_records(rd_bytearr).err = "ok") =>
        /\ calls.made = <<"read">> =>
              /\ rpc # "raised"
              /\ rpc = "returned" => records = read_records(rd_bytearr).records
        /\ calls.made = <<"prescan">> =>
              /\ rpc # "raised"
              /\ rpc = "returned" => cursor = 0 /\ records = <<>>
        /\ calls.made = <<"prescan", "read">> =>
              /\ rpc # "raised"
              /\ rpc = "returned" =>
                    /\ records = read_records(rd_bytearr).records
                    /\ cursor = Len(rd_bytearr)

\* read_records returned two records after the prescan had returned
C27_Witness ==
    /\ calls.made = <<"prescan", "read">>
    /\ rpc = "returned"
    /\ Len(records) = 2
    /\ records = read_records(rd_bytearr).records

(***************************************************************************)
(* Write calls repeated on one DmapWrite (SpecRewrite): the caller makes   *)
(* MaxCalls calls, of any format after the first, over the records the     *)
(* writer was constructed with: complete records and records that lack     *)
(* the field stid                                                          *)
(***************************************************************************)
RewriteInputs ==
    UNION {{<<fmt, recs>> : recs \in SeqsUpTo(LeadingRecords(fmt), MaxRecs)} :
              fmt \in SchemaFormats}
    \cup {<<fmt, recs>> : fmt \in RawFormats,
                          recs \in SeqsUpTo(LeadingRecords("rawacf"), MaxRecs)}

InitRewrite ==
    /\ \E in \in RewriteInputs : dmap_file_fmt = in[1] /\ dmap_records = in[2]
    /\ dmap_bytearr = <<>>
    /\ rec_num = 0
    /\ wpc = "start"
    /\ werr = NoError
    /\ file = <<>>
    /\ write_calls = MaxCalls
    /\ tamper = NoTamper
    /\ rd_bytearr = <<>>
    /\ cursor = 0
    /\ records = <<>>
    /\ total_block_size = 0
    /\ method = "none"
    /\ rpc = "none"
    /\ rerr = "ok"
    /\ calls = OneCall

SpecRewrite == InitRewrite /\ [][NextEncode]_vars

\* the encodings of the records of the writer, one after the other
EncodingOfRecords ==
    Concat([i \in 1..Len(dmap_records) |-> dmap_record_to_bytes(dmap_records[i]).bytes])

\* C25 as stated: the bytes a write call that ends has written are the
\* encodings of the records of the writer, each once and in order,
\* whatever calls were made on the writer before.
C25_OutputIndependentOfHistory ==
    wpc = "done" => file = EncodingOfRecords

\* the second of two write calls that both ended: the file holds the
\* encodings of the records twice
C25_Diverges ==
    /\ wpc = "done"
    /\ write_calls = 0
    /\ dmap_records # <<>>
    /\ file = EncodingOfRecords \o EncodingOfRecords

\* a schema-checked call raised at the second record, and a raw call made
\* after it ended: the file holds the first record twice
C25_DivergesAfterFailure ==
    /\ wpc = "done"
    /\ write_calls = 0
    /\ Len(dmap_records) = 2
    /\ file = dmap_record_to_bytes(dmap_records[1]).bytes \o EncodingOfRecords

====
